---- MODULE Spec2Model ----
(***************************************************************************)
(* NetSuite financial validator: CSV normalisation into the relational     *)
(* store (utils/load_data.py), the filter model and the base relation      *)
(* (utils/transforms.py), the report generators (utils/trial_balance.py,   *)
(* utils/p_and_l.py, utils/balance_sheet.py), the validation counts and    *)
(* report totals (utils/calculations.py) and the session handling of       *)
(* app.py.                                                                 *)
(*                                                                         *)
(* Values.  A SQL / pandas value is an option: NULL is the empty tuple and *)
(* a present value v is <<v>>.  CSV cells are texts; integers, booleans    *)
(* and amounts are obtained from texts by the casts below.  Amounts are    *)
(* exact decimals counted in thousandths (DOUBLE rounding error is not     *)
(* modelled).                                                              *)
(***************************************************************************)
EXTENDS Integers, Sequences, FiniteSets, TLC

VARIABLES
    dfs,          \* the uploaded inputs as read by load_all_data (raw DataFrames)
    con,          \* st.session_state['con']: the relational store
    data_loaded,  \* st.session_state['data_loaded']
    load_error,   \* what the last run-button click reported ("" when it succeeded)
    error_message, \* the exception st.error showed at the last click, if one was raised
    rendered,     \* whether the last script run rendered the reporting section
    filters,      \* the Filter Model value of the last report request
    base,         \* rows of get_base_query_with_filters(filters), keyed by join tuple
    validations,  \* run_data_validations(con, filters)
    tb_df,        \* generate_trial_balance(con, filters)
    pnl_df,       \* generate_pnl(con, filters)
    bs_df,        \* generate_balance_sheet(con, filters)
    pnl_totals,   \* calculate_pnl_totals(pnl_df)
    bs_totals,    \* calculate_balance_sheet_totals(bs_df)
    monthly_df,   \* generate_pnl_by_period(con, filters, 'month')
    quarterly_df, \* generate_pnl_by_period(con, filters, 'quarter')
    yearly_df,    \* generate_pnl_by_period(con, filters, 'year')
    cache,        \* the st.cache_data entry of get_available_filters (NULL when none)
    available,    \* what get_available_filters returned to the sidebar of the last run
    merged_df,    \* the merged transactions frame handed to compute_pnl
    pnl_result    \* what compute_pnl(merged_df) returned or raised (NULL before the call)

vars == <<dfs, con, data_loaded, load_error, error_message, rendered, filters, base,
          validations, tb_df, pnl_df, bs_df, pnl_totals, bs_totals,
          monthly_df, quarterly_df, yearly_df, cache, available, merged_df, pnl_result>>

---------------------------------------------------------------------------
(* Option values and small helpers *)

NULL == <<>>

Some(v) == <<v>>

Coalesce(a, b) == IF a # NULL THEN a ELSE b

\* SQL `||`: NULL if either side is NULL
Concat(a, b) == IF a = NULL \/ b = NULL THEN NULL ELSE Some(a[1] \o b[1])

Range(s) == {s[i] : i \in DOMAIN s}

RECURSIVE SumOver(_, _)
SumOver(S, val) ==
    IF S = {} THEN 0
    ELSE LET e == CHOOSE x \in S : TRUE
         IN val[e] + SumOver(S \ {e}, val)

Abs(n) == IF n < 0 THEN -n ELSE n

---------------------------------------------------------------------------
(* Reading a CSV (load_csv_to_dataframe) *)

\* cell texts pandas.read_csv turns into NaN
NaValues == {"", "NULL", "NaN"}

NoFile == [present |-> FALSE, columns |-> {}, rows |-> <<>>]

File(cols, rws) == [present |-> TRUE, columns |-> cols, rows |-> rws]

load_csv_to_dataframe(file) ==
    IF ~file.present THEN NoFile
    ELSE [present |-> TRUE,
          columns |-> file.columns,
          rows    |-> [i \in DOMAIN file.rows |->
                         [c \in file.columns |->
                            IF file.rows[i][c] \in NaValues
                            THEN NULL ELSE Some(file.rows[i][c])]]]

---------------------------------------------------------------------------
(* Casts (DuckDB TRY_CAST / CAST on a cell) *)

IntText ==
    [t \in {"1", "2", "3", "4", "5", "7", "9", "10", "20", "2024"} |->
        CASE t = "1" -> 1 [] t = "2" -> 2 [] t = "3" -> 3 [] t = "4" -> 4 [] t = "5" -> 5
          [] t = "7" -> 7 [] t = "9" -> 9 [] t = "10" -> 10 [] t = "20" -> 20
          [] t = "2024" -> 2024]

BoolText ==
    [t \in {"TRUE", "true", "T", "1", "FALSE", "false", "F", "0"} |->
        t \in {"TRUE", "true", "T", "1"}]

DateTexts == {"2024-01-15", "2024-02-15"}

\* amount texts, in thousandths
AmountText ==
    [t \in {"100", "-100", "200", "300", "-500", "0.001", "0.004", "0.005", "-0.005", "2.5",
            "1000", "400", "600", "-400", "-600"} |->
        CASE t = "100" -> 100000 [] t = "-100" -> -100000
          [] t = "1000" -> 1000000 [] t = "400" -> 400000 [] t = "600" -> 600000
          [] t = "-400" -> -400000 [] t = "-600" -> -600000
          [] t = "200" -> 200000 [] t = "300" -> 300000 [] t = "-500" -> -500000
          [] t = "0.001" -> 1 [] t = "0.004" -> 4 [] t = "0.005" -> 5 [] t = "-0.005" -> -5
          [] t = "2.5" -> 2500]

TryCastBigint(cell) ==
    IF cell # NULL /\ cell[1] \in DOMAIN IntText THEN Some(IntText[cell[1]]) ELSE NULL

TryCastBoolean(cell) ==
    IF cell # NULL /\ cell[1] \in DOMAIN BoolText THEN Some(BoolText[cell[1]]) ELSE NULL

TryCastDate(cell) ==
    IF cell # NULL /\ cell[1] \in DateTexts THEN cell ELSE NULL

\* CAST(amount AS DOUBLE) raises on a text that is no number
CastDoubleRaises(cell) == cell # NULL /\ cell[1] \notin DOMAIN AmountText

CastDouble(cell) == IF cell = NULL THEN NULL ELSE Some(AmountText[cell[1]])

Not(b) == IF b = NULL THEN NULL ELSE Some(~b[1])

---------------------------------------------------------------------------
(* Column resolution *)

RECURSIVE FirstPresent(_, _, _)
FirstPresent(columns, options, i) ==
    IF i > Len(options) THEN options[1]
    ELSE IF options[i] \in columns THEN options[i]
    ELSE FirstPresent(columns, options, i + 1)

\* get_column returning the last alias that is present
get_column_last_present(df, options) ==
    LET present == {i \in DOMAIN options : options[i] \in df.columns}
    IN IF ~df.present \/ present = {} THEN options[1]
       ELSE options[CHOOSE i \in present : \A j \in present : j <= i]

get_column(df, options) ==
    IF ~df.present THEN options[1] ELSE FirstPresent(df.columns, options, 1)

\* the rows of df that pass `WHERE "<col>" IS NOT NULL` for every col of cols
WhereNotNull(df, cols) ==
    SelectSeq(df.rows, LAMBDA r : \A c \in cols : r[c] # NULL)

---------------------------------------------------------------------------
(* Schema normaliser: one operator per normalize_*_table.  <Name>Raises is *)
(* the condition under which the function raises (DuckDB binder error on a *)
(* column that is not in the frame, a failed CAST, an explicit ValueError). *)

normalize_account_table_raises(df) ==
    \/ ~df.present
    \/ get_column(df, <<"id", "account_id">>) \notin df.columns
    \/ get_column(df, <<"fullname", "name", "account_name",
                        "accountsearchdisplayname">>) \notin df.columns
    \/ get_column(df, <<"accttype", "accounttype", "account_type">>) \notin df.columns

normalize_account_table(df) ==
    LET account_id_col   == get_column(df, <<"id", "account_id">>)
        account_name_col == get_column(df, <<"fullname", "name", "account_name",
                                             "accountsearchdisplayname">>)
        account_type_col == get_column(df, <<"accttype", "accounttype", "account_type">>)
        kept == WhereNotNull(df, {account_id_col})
    IN [i \in DOMAIN kept |->
          [id       |-> TryCastBigint(kept[i][account_id_col]),
           fullname |-> kept[i][account_name_col],
           accttype |-> kept[i][account_type_col]]]

normalize_subsidiary_table_raises(df) ==
    \/ ~df.present
    \/ get_column(df, <<"id", "subsidiary_id">>) \notin df.columns
    \/ get_column(df, <<"name", "fullname", "subsidiary_name">>) \notin df.columns

normalize_subsidiary_table(df) ==
    LET sub_id_col   == get_column(df, <<"id", "subsidiary_id">>)
        sub_name_col == get_column(df, <<"name", "fullname", "subsidiary_name">>)
        kept == WhereNotNull(df, {sub_id_col})
    IN [i \in DOMAIN kept |->
          [id   |-> TryCastBigint(kept[i][sub_id_col]),
           name |-> kept[i][sub_name_col]]]

\* `'posting' in trx_nonposting_col.lower()`: the substring test, on the aliases
ContainsPosting(col) == col \in {"nonposting", "isnonposting", "posting"}

\* nonposting_select with the NULL default of the negated branch turned to FALSE
nonposting_select_default_false(df, row) ==
    LET trx_nonposting_col == get_column(df, <<"nonposting", "isnonposting", "posting">>)
    IN IF trx_nonposting_col \notin df.columns THEN Some(FALSE)
       ELSE Not(Coalesce(TryCastBoolean(row[trx_nonposting_col]), Some(FALSE)))

\* the nonposting_select expression, applied to one row
nonposting_select(df, row) ==
    LET trx_nonposting_col == get_column(df, <<"nonposting", "isnonposting", "posting">>)
        has_nonposting     == trx_nonposting_col \in df.columns
    IN IF ~has_nonposting THEN Some(FALSE)
       ELSE IF ContainsPosting(trx_nonposting_col)
            THEN Not(Coalesce(TryCastBoolean(row[trx_nonposting_col]), Some(TRUE)))
            ELSE Coalesce(TryCastBoolean(row[trx_nonposting_col]), Some(FALSE))

normalize_transaction_table_raises(df) ==
    \/ ~df.present
    \/ get_column(df, <<"id", "transaction_id">>) \notin df.columns

normalize_transaction_table(df) ==
    LET trx_id_col     == get_column(df, <<"id", "transaction_id">>)
        trx_date_col   == get_column(df, <<"trandate", "transaction_date", "date">>)
        trx_period_col == get_column(df, <<"postingperiod", "posting_period", "period",
                                           "accountingperiod">>)
        has_date   == trx_date_col \in df.columns
        has_period == trx_period_col \in df.columns
        kept == WhereNotNull(df, {trx_id_col})
    IN [i \in DOMAIN kept |->
          [id            |-> TryCastBigint(kept[i][trx_id_col]),
           trandate      |-> IF has_date THEN TryCastDate(kept[i][trx_date_col]) ELSE NULL,
           postingperiod |-> IF has_period THEN TryCastBigint(kept[i][trx_period_col])
                             ELSE NULL,
           nonposting    |-> nonposting_select(df, kept[i])]]

normalize_transactionline_table_raises(df) ==
    \/ ~df.present
    \/ get_column(df, <<"transaction", "transaction_id">>) \notin df.columns
    \/ get_column(df, <<"subsidiary", "subsidiary_id">>) \notin df.columns

normalize_transactionline_table(df) ==
    LET trxline_trx_col  == get_column(df, <<"transaction", "transaction_id">>)
        trxline_sub_col  == get_column(df, <<"subsidiary", "subsidiary_id">>)
        trxline_dept_col == get_column(df, <<"department", "department_id">>)
        has_dept == trxline_dept_col \in df.columns
        kept == WhereNotNull(df, {trxline_trx_col})
    IN [i \in DOMAIN kept |->
          [transaction |-> TryCastBigint(kept[i][trxline_trx_col]),
           subsidiary  |-> TryCastBigint(kept[i][trxline_sub_col]),
           department  |-> IF has_dept THEN TryCastBigint(kept[i][trxline_dept_col])
                           ELSE NULL]]

\* the three explicit ValueErrors, in the order they are tested ("" when none)
tal_missing_field(df) ==
    IF get_column(df, <<"transaction", "transaction_id">>) \notin df.columns
    THEN "Transaction"
    ELSE IF get_column(df, <<"account", "account_id">>) \notin df.columns
    THEN "Account"
    ELSE IF "amount" \notin df.columns THEN "Amount"
    ELSE ""

tal_kept(df) ==
    WhereNotNull(df, {get_column(df, <<"transaction", "transaction_id">>),
                      get_column(df, <<"account", "account_id">>), "amount"})

normalize_transactionaccountingline_table_raises(df) ==
    \/ ~df.present
    \/ tal_missing_field(df) # ""
    \/ \E i \in DOMAIN tal_kept(df) : CastDoubleRaises(tal_kept(df)[i]["amount"])

normalize_transactionaccountingline_table(df) ==
    LET tal_trx_col  == get_column(df, <<"transaction", "transaction_id">>)
        tal_acct_col == get_column(df, <<"account", "account_id">>)
        kept == tal_kept(df)
    IN [i \in DOMAIN kept |->
          [transaction |-> TryCastBigint(kept[i][tal_trx_col]),
           account     |-> TryCastBigint(kept[i][tal_acct_col]),
           amount      |-> CastDouble(kept[i]["amount"])]]

\* the dummy period table created when no period file is supplied
NoPeriodData ==
    <<[id |-> Some(1), periodname |-> Some("No Period Data"), fiscalyear |-> Some(1),
       quarter |-> Some(1), month |-> Some(1),
       startdate |-> Some("2024-01-01"), enddate |-> Some("2024-12-31")]>>

normalize_accountingperiod_table_raises(df) ==
    /\ df.present
    /\ \/ get_column(df, <<"id", "period_id">>) \notin df.columns
       \/ get_column(df, <<"periodname", "period_name", "name">>) \notin df.columns

normalize_accountingperiod_table(df) ==
    IF ~df.present THEN NoPeriodData
    ELSE
    LET period_id_col      == get_column(df, <<"id", "period_id">>)
        period_name_col    == get_column(df, <<"periodname", "period_name", "name">>)
        period_year_col    == get_column(df, <<"fiscalyear", "year">>)
        period_quarter_col == get_column(df, <<"quarter", "fiscalquarter">>)
        period_month_col   == get_column(df, <<"month", "fiscalmonth">>)
        period_start_col   == get_column(df, <<"startdate", "start_date">>)
        period_end_col     == get_column(df, <<"enddate", "end_date">>)
        Opt(r, col, cast(_)) == IF col \in df.columns THEN cast(r[col]) ELSE NULL
        kept == WhereNotNull(df, {period_id_col})
    IN [i \in DOMAIN kept |->
          [id         |-> TryCastBigint(kept[i][period_id_col]),
           periodname |-> kept[i][period_name_col],
           fiscalyear |-> Opt(kept[i], period_year_col, TryCastBigint),
           quarter    |-> Opt(kept[i], period_quarter_col, TryCastBigint),
           month      |-> Opt(kept[i], period_month_col, TryCastBigint),
           startdate  |-> Opt(kept[i], period_start_col, TryCastDate),
           enddate    |-> Opt(kept[i], period_end_col, TryCastDate)]]

---------------------------------------------------------------------------
(* load_all_data *)

FileKeys == {"account", "subsidiary", "transaction", "transactionline", "tal", "period"}

read_all(files_dict) == [k \in FileKeys |-> load_csv_to_dataframe(files_dict[k])]

\* the first normaliser that raises, in call order ("" when the load succeeds)
load_all_data_raises(d) ==
    IF normalize_account_table_raises(d["account"]) THEN "account"
    ELSE IF normalize_subsidiary_table_raises(d["subsidiary"]) THEN "subsidiary"
    ELSE IF normalize_transaction_table_raises(d["transaction"]) THEN "transaction"
    ELSE IF normalize_transactionline_table_raises(d["transactionline"])
         THEN "transactionline"
    ELSE IF normalize_transactionaccountingline_table_raises(d["tal"]) THEN "tal"
    ELSE IF normalize_accountingperiod_table_raises(d["period"]) THEN "period"
    ELSE ""

NoMessage == [kind |-> "", field |-> "", columns |-> {}]

\* the ValueError of the accounting-line normaliser with no column list
tal_value_error_no_columns(df) ==
    [kind |-> "ValueError", field |-> tal_missing_field(df), columns |-> {}]

\* "<field> column not found in transactionaccountingline. Available columns: ..."
tal_value_error(df) ==
    [kind |-> "ValueError", field |-> tal_missing_field(df), columns |-> df.columns]

\* the exception load_all_data raises: the explicit ValueError, DuckDB's
\* conversion error of CAST(amount AS DOUBLE), or its binder error on a column
\* that is not in the frame
load_all_data_exception(d) ==
    LET where == load_all_data_raises(d) IN
    IF where = "" THEN NoMessage
    ELSE IF where = "tal" /\ tal_missing_field(d["tal"]) # "" THEN tal_value_error(d["tal"])
    ELSE IF where = "tal"
         THEN [kind |-> "ConversionException", field |-> "amount", columns |-> {}]
    ELSE [kind |-> "BinderException", field |-> "", columns |-> {}]

\* load_all_data on the session's connection: without a period file the period
\* table of the load before stays
load_all_data_same_connection(d) ==
    [account                   |-> normalize_account_table(d["account"]),
     subsidiary                |-> normalize_subsidiary_table(d["subsidiary"]),
     transaction_header        |-> normalize_transaction_table(d["transaction"]),
     transactionline           |-> normalize_transactionline_table(d["transactionline"]),
     transactionaccountingline |-> normalize_transactionaccountingline_table(d["tal"]),
     accountingperiod          |->
        IF ~d["period"].present /\ con.accountingperiod # <<>>
        THEN con.accountingperiod
        ELSE normalize_accountingperiod_table(d["period"])]

load_all_data(d) ==
    [account                   |-> normalize_account_table(d["account"]),
     subsidiary                |-> normalize_subsidiary_table(d["subsidiary"]),
     transaction_header        |-> normalize_transaction_table(d["transaction"]),
     transactionline           |-> normalize_transactionline_table(d["transactionline"]),
     transactionaccountingline |-> normalize_transactionaccountingline_table(d["tal"]),
     accountingperiod          |-> normalize_accountingperiod_table(d["period"])]

EmptyStore ==
    [account |-> <<>>, subsidiary |-> <<>>, transaction_header |-> <<>>,
     transactionline |-> <<>>, transactionaccountingline |-> <<>>,
     accountingperiod |-> <<>>]

---------------------------------------------------------------------------
(* Filter model: build_filter_where_clause.  A filter dict is a function   *)
(* from the keys it holds to their values; a key may be absent.            *)

\* HasValues without the emptiness test
HasValues_key_present(f, key) == key \in DOMAIN f

\* `filters.get(key)` is truthy for a collection: present and not empty
HasValues(f, key) == key \in DOMAIN f /\ f[key] # {}

\* ExcludeNonposting with the option ignored
ExcludeNonposting_ignored(f) == FALSE

\* `filters.get('exclude_nonposting', False)`
ExcludeNonposting(f) ==
    "exclude_nonposting" \in DOMAIN f /\ f["exclude_nonposting"]

\* SqlIn turned into NOT IN
SqlIn_negated(x, S) == x # NULL /\ x[1] \notin S

\* SQL `x IN (...)`: never true of NULL
\* IN that a NULL satisfies
SqlIn_null_matches(x, S) == x = NULL \/ x[1] \in S

SqlIn(x, S) == x # NULL /\ x[1] \in S

\* SQL `x = y`: never true when a side is NULL
SqlEq(x, y) == x # NULL /\ y # NULL /\ x = y

\* the WHERE clause, evaluated on the joined rows a, tl, th, ap
build_filter_where_clause(f, a, tl, th, ap) ==
    /\ ExcludeNonposting(f) => Coalesce(th.nonposting, Some(FALSE)) = Some(FALSE)
    /\ HasValues(f, "subsidiaries") => SqlIn(tl.subsidiary, f["subsidiaries"])
    /\ HasValues(f, "periods") => SqlIn(ap.periodname, f["periods"])
    /\ HasValues(f, "departments") => SqlIn(tl.department, f["departments"])
    /\ HasValues(f, "account_types") => SqlIn(a.accttype, f["account_types"])

---------------------------------------------------------------------------
(* Base relation: get_base_query_with_filters.  A joined row is the tuple  *)
(* <<i, a, j, s, h, p>> of the row numbers it is made of in                *)
(* transactionaccountingline, account, transactionline, subsidiary,        *)
(* transaction_header and accountingperiod; 0 stands for the all-NULL row  *)
(* a LEFT JOIN supplies when nothing matches.                              *)

NullAccount == [id |-> NULL, fullname |-> NULL, accttype |-> NULL]

NullSubsidiary == [id |-> NULL, name |-> NULL]

NullPeriod ==
    [id |-> NULL, periodname |-> NULL, fiscalyear |-> NULL, quarter |-> NULL,
     month |-> NULL, startdate |-> NULL, enddate |-> NULL]

RowOr(table, n, nullrow) == IF n = 0 THEN nullrow ELSE table[n]

\* LEFT JOIN: the matching row numbers, or {0} when there is none
LeftJoin(table, key) ==
    LET m == {n \in DOMAIN table : SqlEq(key, table[n].id)}
    IN IF m = {} THEN {0} ELSE m

\* JoinLines keeping one line per transaction
JoinLines_first_only(st, tal) ==
    LET m == {j \in DOMAIN st.transactionline :
                 SqlEq(tal.transaction, st.transactionline[j].transaction)}
    IN {j \in m : \A k \in m : j <= k}

\* INNER JOIN transactionline tl ON tal.transaction = tl.transaction
JoinLines(st, tal) ==
    {j \in DOMAIN st.transactionline :
        SqlEq(tal.transaction, st.transactionline[j].transaction)}

\* JoinHeader keeping a line without a header, on every header
JoinHeader_unmatched_kept(st, tal) ==
    LET m == {h \in DOMAIN st.transaction_header :
                 SqlEq(tal.transaction, st.transaction_header[h].id)}
    IN IF m = {} THEN DOMAIN st.transaction_header ELSE m

\* INNER JOIN transaction_header th ON tal.transaction = th.id
JoinHeader(st, tal) ==
    {h \in DOMAIN st.transaction_header :
        SqlEq(tal.transaction, st.transaction_header[h].id)}

Joined(st) ==
    UNION {
      UNION {
        UNION {
          {<<i, a, j, s, h, p>> :
              a \in LeftJoin(st.account, st.transactionaccountingline[i].account),
              s \in LeftJoin(st.subsidiary, st.transactionline[j].subsidiary),
              p \in LeftJoin(st.accountingperiod,
                             st.transaction_header[h].postingperiod)}
          : h \in JoinHeader(st, st.transactionaccountingline[i])}
        : j \in JoinLines(st, st.transactionaccountingline[i])}
      : i \in DOMAIN st.transactionaccountingline}

Passes(st, f, t) ==
    build_filter_where_clause(f,
        RowOr(st.account, t[2], NullAccount),
        st.transactionline[t[3]],
        st.transaction_header[t[5]],
        RowOr(st.accountingperiod, t[6], NullPeriod))

\* CAST(tal.account AS VARCHAR)
CastVarchar(n) == IF n = NULL THEN NULL ELSE Some(ToString(n[1]))

\* UnknownAccountName without the id
UnknownAccountName_no_id(account) == Some("Unknown Account")

UnknownAccountName(account) ==
    Concat(Concat(Some("Unknown Account ["), CastVarchar(account)), Some("]"))

\* the SELECT list
SelectRow(st, t) ==
    LET tal == st.transactionaccountingline[t[1]]
        a   == RowOr(st.account, t[2], NullAccount)
        tl  == st.transactionline[t[3]]
        s   == RowOr(st.subsidiary, t[4], NullSubsidiary)
        th  == st.transaction_header[t[5]]
        ap  == RowOr(st.accountingperiod, t[6], NullPeriod)
    IN [subsidiary_name  |-> Coalesce(s.name, Some("Unknown Subsidiary")),
        subsidiary_id    |-> s.id,
        account_name     |-> Coalesce(a.fullname, UnknownAccountName(tal.account)),
        account_id       |-> a.id,
        account_type     |-> Coalesce(a.accttype, Some("Unknown")),
        period_name      |-> ap.periodname,
        fiscal_year      |-> ap.fiscalyear,
        fiscal_quarter   |-> ap.quarter,
        fiscal_month     |-> ap.month,
        transaction_date |-> th.trandate,
        department_id    |-> tl.department,
        amount           |-> tal.amount]

get_base_query_with_filters(st, f) ==
    [t \in {u \in Joined(st) : Passes(st, f, u)} |-> SelectRow(st, t)]

---------------------------------------------------------------------------
(* Report generators.  A report frame is the set of its rows (the groups   *)
(* of a GROUP BY are distinct); the display order is not modelled.         *)

\* ROUND(x, 2) left out
Round2_unrounded(n) == n

\* ROUND(x, 2) on thousandths: half away from zero
Round2(n) ==
    LET q == Abs(n) \div 10
        r == Abs(n) % 10
        m == IF r >= 5 THEN q + 1 ELSE q
    IN IF n < 0 THEN -(m * 10) ELSE m * 10

GroupKey(row) == <<row.subsidiary_name, row.account_name, row.account_type>>

\* GroupByAccount summing the debits (amount > 0) only
GroupByAccount_debits_only(b, rows) ==
    LET keys == {GroupKey(b[t]) : t \in rows}
        amt  == [t \in rows |-> IF b[t].amount[1] > 0 THEN b[t].amount[1] ELSE 0]
    IN {[subsidiary_name |-> k[1], account_name |-> k[2], account_type |-> k[3],
         total_amount |-> Round2(SumOver({t \in rows : GroupKey(b[t]) = k}, amt))]
        : k \in keys}

\* GROUP BY 1, 2, 3 with ROUND(SUM(amount), 2), over the rows the WHERE keeps
GroupByAccount(b, rows) ==
    LET keys == {GroupKey(b[t]) : t \in rows}
        amt  == [t \in rows |-> b[t].amount[1]]
    IN {[subsidiary_name |-> k[1], account_name |-> k[2], account_type |-> k[3],
         total_amount |-> Round2(SumOver({t \in rows : GroupKey(b[t]) = k}, amt))]
        : k \in keys}

pnl_account_types ==
    {"Income", "OthIncome", "Expense", "COGS", "OthExpense", "DeferExpense"}

bs_account_types ==
    {"Bank", "AcctRec", "OthCurrAsset", "FixedAsset", "OthAsset",
     "AcctPay", "OthCurrLiab", "LongTermLiab", "Equity"}

\* trial_balance_query adding each accounting line once, on its first
\* transaction line
trial_balance_query_once_per_line(base_data) ==
    GroupByAccount(base_data,
        {t \in DOMAIN base_data :
            \A u \in DOMAIN base_data : u[1] = t[1] => t[3] <= u[3]})

\* the aggregation each generator runs over its base_data CTE
trial_balance_query(base_data) == GroupByAccount(base_data, DOMAIN base_data)

\* pnl_query without its WHERE clause
pnl_query_all_types(base_data) == GroupByAccount(base_data, DOMAIN base_data)

pnl_query(base_data) ==
    GroupByAccount(base_data,
        {t \in DOMAIN base_data : SqlIn(base_data[t].account_type, pnl_account_types)})

balance_sheet_query(base_data) ==
    GroupByAccount(base_data,
        {t \in DOMAIN base_data : SqlIn(base_data[t].account_type, bs_account_types)})

\* the period columns of the SELECT list, which are also the GROUP BY columns
period_cols(period_type, row) ==
    CASE period_type = "month" ->
            <<row.fiscal_year, row.fiscal_month, row.period_name>>
      [] period_type = "quarter" ->
            <<row.fiscal_year, row.fiscal_quarter, row.period_name>>
      [] OTHER -> <<row.fiscal_year>>

\* SELECT period_cols, account_type, ROUND(SUM(amount), 2) ... GROUP BY all of
\* them, over the base rows of a P&L type
pnl_by_period_query(base_data, period_type) ==
    LET rows == {t \in DOMAIN base_data :
                    SqlIn(base_data[t].account_type, pnl_account_types)}
        key(t) == <<period_cols(period_type, base_data[t]), base_data[t].account_type>>
        amt  == [t \in rows |-> base_data[t].amount[1]]
    IN {[period_cols  |-> k[1],
         account_type |-> k[2],
         total_amount |-> Round2(SumOver({t \in rows : key(t) = k}, amt))]
        : k \in {key(t) : t \in rows}}

generate_pnl_by_period(st, f, period_type) ==
    pnl_by_period_query(get_base_query_with_filters(st, f), period_type)

generate_trial_balance(st, f) == trial_balance_query(get_base_query_with_filters(st, f))

generate_pnl(st, f) == pnl_query(get_base_query_with_filters(st, f))

generate_balance_sheet(st, f) == balance_sheet_query(get_base_query_with_filters(st, f))

---------------------------------------------------------------------------
(* utils/calculations.py *)

revenue_types == {"Income", "OthIncome"}

expense_types == {"Expense", "COGS", "OthExpense", "DeferExpense"}

\* df[df['account_type'].isin(types)]['total_amount'].sum()
SumOfTypes(df, types) ==
    SumOver({r \in df : r.account_type[1] \in types},
            [r \in df |-> r.total_amount])

\* calculate_pnl_totals with net income taken from the magnitudes
calculate_pnl_totals_magnitudes(df) ==
    LET revenue  == SumOfTypes(df, revenue_types)
        expenses == SumOfTypes(df, expense_types)
    IN [revenue    |-> Abs(revenue),
        expenses   |-> Abs(expenses),
        net_income |-> Abs(revenue) - Abs(expenses)]

calculate_pnl_totals(df) ==
    LET revenue  == SumOfTypes(df, revenue_types)
        expenses == SumOfTypes(df, expense_types)
    IN [revenue    |-> Abs(revenue),
        expenses   |-> Abs(expenses),
        net_income |-> revenue + expenses]

asset_types == {"Bank", "AcctRec", "OthCurrAsset", "FixedAsset", "OthAsset"}

liability_types == {"AcctPay", "OthCurrLiab", "LongTermLiab"}

equity_types == {"Equity"}

\* calculate_balance_sheet_totals with the check taken as assets + liabilities + equity
calculate_balance_sheet_totals_signed(df) ==
    LET assets      == SumOfTypes(df, asset_types)
        liabilities == SumOfTypes(df, liability_types)
        equity      == SumOfTypes(df, equity_types)
    IN [assets        |-> assets,
        liabilities   |-> liabilities,
        equity        |-> equity,
        balance_check |-> Round2(assets + liabilities + equity)]

calculate_balance_sheet_totals(df) ==
    LET assets      == SumOfTypes(df, asset_types)
        liabilities == SumOfTypes(df, liability_types)
        equity      == SumOfTypes(df, equity_types)
    IN [assets        |-> assets,
        liabilities   |-> liabilities,
        equity        |-> equity,
        balance_check |-> Round2(assets - (liabilities + equity))]

\* COUNT(DISTINCT id) over the rows whose nonposting flag is one of flags
CountDistinctId(table, flags) ==
    Cardinality({table[n].id : n \in {m \in DOMAIN table : table[m].nonposting \in flags}}
                \ {NULL})

\* run_data_validations counting only posting transactions when the filter
\* excludes the non-posting ones
run_data_validations_filtered(st, f) ==
    [null_accounts |->
        Cardinality({i \in DOMAIN st.transactionaccountingline :
            LeftJoin(st.account, st.transactionaccountingline[i].account) = {0}}),
     missing_subsidiaries |->
        Cardinality({j \in DOMAIN st.transactionline :
            LeftJoin(st.subsidiary, st.transactionline[j].subsidiary) = {0}}),
     nonposting_count |->
        CountDistinctId(st.transaction_header, {Some(TRUE)}),
     total_transactions |->
        CountDistinctId(st.transaction_header,
                        IF ExcludeNonposting(f) THEN {NULL, Some(FALSE)}
                        ELSE {NULL, Some(TRUE), Some(FALSE)}),
     posting_transactions |->
        CountDistinctId(st.transaction_header, {Some(FALSE)})]

\* run_data_validations with COUNT(*) for the total
run_data_validations_count_rows(st, f) ==
    [null_accounts |->
        Cardinality({i \in DOMAIN st.transactionaccountingline :
            LeftJoin(st.account, st.transactionaccountingline[i].account) = {0}}),
     missing_subsidiaries |->
        Cardinality({j \in DOMAIN st.transactionline :
            LeftJoin(st.subsidiary, st.transactionline[j].subsidiary) = {0}}),
     nonposting_count |->
        CountDistinctId(st.transaction_header, {Some(TRUE)}),
     total_transactions |-> Len(st.transaction_header),
     posting_transactions |->
        CountDistinctId(st.transaction_header, {Some(FALSE)})]

run_data_validations(st, f) ==
    [null_accounts |->
        Cardinality({i \in DOMAIN st.transactionaccountingline :
            LeftJoin(st.account, st.transactionaccountingline[i].account) = {0}}),
     missing_subsidiaries |->
        Cardinality({j \in DOMAIN st.transactionline :
            LeftJoin(st.subsidiary, st.transactionline[j].subsidiary) = {0}}),
     nonposting_count |->
        CountDistinctId(st.transaction_header, {Some(TRUE)}),
     total_transactions |->
        CountDistinctId(st.transaction_header, {NULL, Some(TRUE), Some(FALSE)}),
     posting_transactions |->
        CountDistinctId(st.transaction_header, {Some(FALSE)})]

---------------------------------------------------------------------------
(* src/transform.py: compute_pnl on a merged transactions frame.  A frame  *)
(* is its rows in order and whether it has a date column; a row holds its  *)
(* account_type, its amount and the month of its date (NULL when the date  *)
(* does not parse, errors="coerce").                                       *)

NoFrame == [has_date |-> TRUE, rows |-> <<>>]

\* df[df["account_type"].isin(["Income", "Expense", "COGS"])]
pnl_data_types == {"Income", "Expense", "COGS"}

\* the rows of pnl_data after the sign reversal, reversing the positive Income
\* amounts only
reverse_income_sign_positive_only(rows) ==
    LET pnl_data == SelectSeq(rows, LAMBDA r : r.account_type \in pnl_data_types)
    IN [i \in DOMAIN pnl_data |->
          IF pnl_data[i].account_type = "Income" /\ pnl_data[i].amount > 0
          THEN [pnl_data[i] EXCEPT !.amount = -pnl_data[i].amount]
          ELSE pnl_data[i]]

\* the rows of pnl_data after "Reverse income sign"
reverse_income_sign(rows) ==
    LET pnl_data == SelectSeq(rows, LAMBDA r : r.account_type \in pnl_data_types)
        any_positive == \E i \in DOMAIN pnl_data :
                            pnl_data[i].account_type = "Income" /\ pnl_data[i].amount > 0
    IN [i \in DOMAIN pnl_data |->
          IF any_positive /\ pnl_data[i].account_type = "Income"
          THEN [pnl_data[i] EXCEPT !.amount = -pnl_data[i].amount]
          ELSE pnl_data[i]]

compute_pnl(frame) ==
    IF ~frame.has_date
    THEN [raised |-> "KeyError", pnl_summary |-> {}, pnl_monthly |-> {}]
    ELSE
    LET pnl_data == reverse_income_sign(frame.rows)
        amt == [i \in DOMAIN pnl_data |-> pnl_data[i].amount]
        dated == {i \in DOMAIN pnl_data : pnl_data[i].month # NULL}
    IN [raised |-> "",
        pnl_summary |->
           {[account_type |-> ty,
             amount |-> SumOver({i \in DOMAIN pnl_data :
                                    pnl_data[i].account_type = ty}, amt)]
              : ty \in {pnl_data[i].account_type : i \in DOMAIN pnl_data}},
        pnl_monthly |->
           {[month |-> k[1], account_type |-> k[2],
             amount |-> SumOver({i \in dated :
                                    <<pnl_data[i].month[1], pnl_data[i].account_type>> = k},
                                amt)]
              : k \in {<<pnl_data[i].month[1], pnl_data[i].account_type>> : i \in dated}}]

\* the call compute_pnl(merged_df)
ComputePnl ==
    /\ pnl_result' = Some(compute_pnl(merged_df))
    /\ UNCHANGED <<dfs, con, data_loaded, load_error, error_message, rendered, filters,
                   base, validations, tb_df, pnl_df, bs_df, pnl_totals, bs_totals,
                   monthly_df, quarterly_df, yearly_df, cache, available, merged_df>>

---------------------------------------------------------------------------
(* app.py: one script run.  The run-button branch loads the files; the     *)
(* reporting section runs when data_loaded is set.                         *)

RequiredFiles == {"account", "subsidiary", "transaction", "transactionline", "tal"}

\* the sidebar of a fresh session: nothing selected, the checkbox unchecked
DefaultSelection ==
    [exclude_nonposting |-> FALSE, subsidiaries |-> {}, periods |-> {},
     departments |-> {}, account_types |-> {}]

NoFilters == [exclude_nonposting |-> FALSE]

NoValidations ==
    [null_accounts |-> 0, missing_subsidiaries |-> 0, nonposting_count |-> 0,
     total_transactions |-> 0, posting_transactions |-> 0]

NoTotals == [revenue |-> 0, expenses |-> 0, net_income |-> 0]

\* display_balance_sheet returns before the totals when the frame is empty
NoBalanceSheetTotals == [assets |-> 0, liabilities |-> 0, equity |-> 0, balance_check |-> 0]

\* the body of get_available_filters: the DISTINCT rows of the four queries
get_available_filters(st) ==
    [subsidiaries |->
        {[id |-> st.subsidiary[n].id, name |-> st.subsidiary[n].name]
            : n \in DOMAIN st.subsidiary},
     periods |->
        {[name    |-> st.accountingperiod[n].periodname,
          year    |-> st.accountingperiod[n].fiscalyear,
          quarter |-> st.accountingperiod[n].quarter,
          month   |-> st.accountingperiod[n].month]
            : n \in {m \in DOMAIN st.accountingperiod :
                        st.accountingperiod[m].periodname # NULL}},
     departments |->
        {st.transactionline[n].department[1]
            : n \in {m \in DOMAIN st.transactionline :
                        st.transactionline[m].department # NULL}},
     account_types |->
        {st.account[n].accttype[1]
            : n \in {m \in DOMAIN st.account : st.account[m].accttype # NULL}}]

NoOptions ==
    [subsidiaries |-> {}, periods |-> {}, departments |-> {}, account_types |-> {}]

\* @st.cache_data(ttl=300), in seconds
ttl == 300

\* the entry is returned while it is younger than ttl.  The argument is named
\* _con, so it is no part of the cache key: the function has one entry.
CacheHit(elapsed) == cache # NULL /\ cache[1].age + elapsed < ttl

\* render_filter_sidebar's call get_available_filters(st), elapsed seconds after
\* the previous script run
Sidebar(st, elapsed) ==
    /\ available' = IF CacheHit(elapsed) THEN cache[1].value
                    ELSE get_available_filters(st)
    /\ cache' = IF CacheHit(elapsed)
                THEN Some([value |-> cache[1].value, age |-> cache[1].age + elapsed])
                ELSE Some([value |-> get_available_filters(st), age |-> 0])

\* a script run that stops before the sidebar: the entry only ages (an age of
\* ttl stands for every age from ttl on)
NoSidebar(elapsed) ==
    /\ available' = NoOptions
    /\ cache' = IF cache = NULL THEN NULL
                ELSE Some([value |-> cache[1].value,
                           age |-> IF cache[1].age + elapsed < ttl
                                   THEN cache[1].age + elapsed ELSE ttl])

\* the reporting section of app.py, on store st with the filter value f; every
\* generator runs the same base query, whose rows are base'
ReportingSection(st, f) ==
    /\ rendered' = TRUE
    /\ filters' = f
    /\ base' = get_base_query_with_filters(st, f)
    /\ validations' = run_data_validations(st, f)
    /\ tb_df' = trial_balance_query(base')
    /\ pnl_df' = pnl_query(base')
    /\ bs_df' = balance_sheet_query(base')
    /\ pnl_totals' = calculate_pnl_totals(pnl_df')
    /\ bs_totals' = IF bs_df' = {} THEN NoBalanceSheetTotals
                    ELSE calculate_balance_sheet_totals(bs_df')
    /\ monthly_df' = pnl_by_period_query(base', "month")
    /\ quarterly_df' = pnl_by_period_query(base', "quarter")
    /\ yearly_df' = pnl_by_period_query(base', "year")

\* st.stop(), or a run with no data loaded: nothing of the reports is rendered
NothingRendered ==
    /\ rendered' = FALSE
    /\ filters' = NoFilters
    /\ base' = <<>>
    /\ validations' = NoValidations
    /\ tb_df' = {}
    /\ pnl_df' = {}
    /\ bs_df' = {}
    /\ pnl_totals' = NoTotals
    /\ bs_totals' = NoBalanceSheetTotals
    /\ monthly_df' = {}
    /\ quarterly_df' = {}
    /\ yearly_df' = {}

\* what the sidebar can hold in the run that loads: its defaults, or the
\* selection of the previous run when that run rendered it
SidebarSelections == {DefaultSelection} \cup (IF rendered THEN {filters} ELSE {})

\* "Generate Reports" pressed with files_dict uploaded: every required file is
\* there and load_all_data returns; the reporting section follows in the same run
RunButtonLoads(files_dict, f, elapsed) ==
    LET d == read_all(files_dict) IN
    /\ f \in SidebarSelections
    /\ \A k \in RequiredFiles : files_dict[k].present
    /\ load_all_data_raises(d) = ""
    /\ dfs' = d
    /\ con' = load_all_data(d)
    /\ data_loaded' = TRUE
    /\ UNCHANGED <<merged_df, pnl_result>>
    /\ load_error' = ""
    /\ error_message' = NoMessage
    /\ Sidebar(con', elapsed)
    /\ ReportingSection(con', f)

\* "Generate Reports" pressed with a required file missing: st.error, st.stop
RunButtonMissing(files_dict, elapsed) ==
    /\ \E k \in RequiredFiles : ~files_dict[k].present
    /\ load_error' = "missing"
    /\ error_message' = NoMessage
    /\ UNCHANGED <<dfs, con, data_loaded, merged_df, pnl_result>>
    /\ NoSidebar(elapsed)
    /\ NothingRendered

\* RunButtonRaises keeping the connection of the failed load in the session:
\* the tables made before the exception
RunButtonRaises_partial_store(files_dict, elapsed) ==
    LET d == read_all(files_dict) IN
    /\ \A k \in RequiredFiles : files_dict[k].present
    /\ load_all_data_raises(d) # ""
    /\ load_error' = load_all_data_raises(d)
    /\ error_message' = load_all_data_exception(d)
    /\ con' = [EmptyStore EXCEPT
                 !.account = IF load_all_data_raises(d) = "account" THEN <<>>
                             ELSE normalize_account_table(d["account"])]
    /\ data_loaded' = TRUE
    /\ UNCHANGED <<dfs, merged_df, pnl_result>>
    /\ NoSidebar(elapsed)
    /\ NothingRendered

\* "Generate Reports" pressed and load_all_data raises: st.error, st.stop
RunButtonRaises(files_dict, elapsed) ==
    LET d == read_all(files_dict) IN
    /\ \A k \in RequiredFiles : files_dict[k].present
    /\ load_all_data_raises(d) # ""
    /\ load_error' = load_all_data_raises(d)
    /\ error_message' = load_all_data_exception(d)
    /\ UNCHANGED <<dfs, con, data_loaded, merged_df, pnl_result>>
    /\ NoSidebar(elapsed)
    /\ NothingRendered

\* a script run without the button (a sidebar change): a report request with f
ReportRequest(f, elapsed) ==
    /\ load_error' = ""
    /\ error_message' = NoMessage
    /\ UNCHANGED <<dfs, con, data_loaded, merged_df, pnl_result>>
    /\ IF data_loaded THEN Sidebar(con, elapsed) /\ ReportingSection(con, f)
       ELSE NoSidebar(elapsed) /\ NothingRendered

\* the session before the first script run
AppInit ==
    /\ dfs = [k \in FileKeys |-> NoFile]
    /\ con = EmptyStore
    /\ data_loaded = FALSE
    /\ load_error = ""
    /\ error_message = NoMessage
    /\ rendered = FALSE
    /\ filters = NoFilters
    /\ base = <<>>
    /\ validations = NoValidations
    /\ tb_df = {}
    /\ pnl_df = {}
    /\ bs_df = {}
    /\ pnl_totals = NoTotals
    /\ bs_totals = NoBalanceSheetTotals
    /\ monthly_df = {}
    /\ quarterly_df = {}
    /\ yearly_df = {}
    /\ cache = NULL
    /\ available = NoOptions

Init ==
    /\ AppInit
    /\ merged_df = NoFrame
    /\ pnl_result = NULL

---------------------------------------------------------------------------
(* Inputs.  A CSV is written as its header and its lines; Csv turns the    *)
(* lines into rows keyed by column name.                                   *)

Csv(header, lines) ==
    File(Range(header),
         [i \in DOMAIN lines |->
            [c \in Range(header) |->
               lines[i][CHOOSE n \in DOMAIN header : header[n] = c]]])

Prefix(lines, n) == SubSeq(lines, 1, IF n < Len(lines) THEN n ELSE Len(lines))

\* most transaction lines / accounting lines of an uploaded file
MaxLines == 4

MaxAccountingLines == 7

AccountLines ==
    << <<"1", "Cash", "Bank">>, <<"2", "Sales", "Income">>,
       <<"3", "Rent", "Expense">>, <<"7", "", "">> >>

SubsidiaryLines == << <<"1", "US">>, <<"2", "">> >>

\* id, trandate, postingperiod, posting indicator
TransactionLines ==
    << <<"1", "2024-01-15", "1", "FALSE">>, <<"2", "2024-02-15", "2", "TRUE">>,
       <<"3", "", "", "">>, <<"4", "2024-01-15", "1", "maybe">> >>

\* transaction, subsidiary, department
TransactionLineLines ==
    << <<"1", "1", "10">>, <<"1", "2", "">>, <<"2", "9", "20">>,
       <<"3", "", "10">>, <<"2", "1", "10">> >>

\* transaction, account, amount
AccountingLineLines ==
    << <<"1", "2", "-500">>, <<"1", "3", "300">>, <<"1", "1", "200">>,
       <<"2", "9", "100">>, <<"3", "7", "0.005">>, <<"5", "1", "100">>,
       <<"2", "2", "-100">>, <<"4", "3", "2.5">> >>

PeriodLines ==
    << <<"1", "P1", "2024", "1", "1">>, <<"2", "P2", "2024", "1", "2">> >>

Variants ==
    {"nonposting", "isnonposting", "posting", "noflag", "noperiod",
     "dupaccount", "dupsubsidiary", "dupheader", "dupperiod", "badkeys", "badaccount",
     "fractions"}

FailingVariants ==
    {"nofile", "noamount", "badamount", "noname", "notransaction", "noaccount"}

\* a ledger of one transaction over balance-sheet accounts only: "identity" holds
\* the category totals 1000 / 400 / 600, "balanced" the same entry with debits
\* positive and credits negative, "dupledger" the balanced entry with account id
\* 4 listed twice, "centsledger" a balanced entry of amounts below one cent
LedgerVariants == {"identity", "balanced", "dupledger", "centsledger"}

LedgerAccountLines ==
    << <<"1", "Cash", "Bank">>, <<"4", "Payables", "AcctPay">>,
       <<"5", "Capital", "Equity">> >>

LedgerLines(v) ==
    IF v = "identity"
    THEN << <<"1", "1", "1000">>, <<"1", "4", "400">>, <<"1", "5", "600">> >>
    ELSE IF v = "centsledger"
    THEN << <<"1", "1", "0.004">>, <<"1", "4", "0.001">>, <<"1", "5", "-0.005">> >>
    ELSE << <<"1", "1", "1000">>, <<"1", "4", "-400">>, <<"1", "5", "-600">> >>

\* the upload of variant v with n transaction lines
Upload(v, n) ==
    LET flagcol == CASE v = "posting" -> "posting"
                     [] v = "isnonposting" -> "isnonposting"
                     [] OTHER -> "nonposting"
    IN
    [account |->
        IF v = "nofile" THEN NoFile
        ELSE IF v = "noname" THEN Csv(<<"id", "accttype">>, << <<"1", "Bank">> >>)
        ELSE IF v \in LedgerVariants
        THEN Csv(<<"id", "fullname", "accttype">>,
                 LedgerAccountLines
                 \o (IF v = "dupledger" THEN << <<"4", "Loans", "AcctPay">> >>
                     ELSE <<>>))
        ELSE Csv(<<"id", "fullname", "accttype">>,
                 AccountLines
                 \o (IF v = "dupaccount" THEN << <<"1", "Petty", "Equity">> >> ELSE <<>>)
                 \o (IF v = "badkeys" THEN << <<"A-1", "Bad", "Bank">> >> ELSE <<>>)),
     subsidiary |->
        Csv(<<"id", "name">>,
            SubsidiaryLines
            \o (IF v = "dupsubsidiary" THEN << <<"1", "EU">> >> ELSE <<>>)
            \o (IF v = "badkeys" THEN << <<"S-1", "Bad">> >> ELSE <<>>)),
     transaction |->
        LET lines == TransactionLines
                     \o (IF v = "dupheader"
                         THEN << <<"1", "2024-02-15", "2", "TRUE">> >> ELSE <<>>)
                     \o (IF v = "badkeys"
                         THEN << <<"T-1", "2024-01-15", "1", "TRUE">> >> ELSE <<>>)
        IN IF v = "noflag"
           THEN Csv(<<"id", "trandate", "postingperiod">>,
                    [i \in DOMAIN lines |-> SubSeq(lines[i], 1, 3)])
           ELSE Csv(<<"id", "trandate", "postingperiod", flagcol>>, lines),
     transactionline |->
        Csv(<<"transaction", "subsidiary", "department">>,
            Prefix(TransactionLineLines, n)
            \o (IF v = "badkeys" THEN << <<"T-1", "1", "10">>, <<"5", "1", "10">> >>
                ELSE <<>>)),
     tal |->
        IF v = "noamount"
        THEN Csv(<<"transaction", "account">>, << <<"1", "1">> >>)
        ELSE IF v = "notransaction"
        THEN Csv(<<"account", "amount", "memo">>, << <<"1", "100", "x">> >>)
        ELSE IF v = "noaccount"
        THEN Csv(<<"transaction_id", "amount">>, << <<"1", "100">> >>)
        ELSE IF v \in LedgerVariants
        THEN Csv(<<"transaction", "account", "amount">>, LedgerLines(v))
        ELSE Csv(<<"transaction", "account", "amount">>,
                 Prefix(AccountingLineLines, MaxAccountingLines)
                 \o (IF v = "badkeys" THEN << <<"T-1", "1", "100">> >> ELSE <<>>)
                 \o (IF v = "badaccount" THEN << <<"1", "A-1", "100">> >> ELSE <<>>)
                 \o (IF v = "badamount" THEN << <<"1", "1", "12,5">> >> ELSE <<>>)
                 \o (IF v = "fractions"
                     THEN << <<"1", "2", "0.004">>, <<"1", "1", "0.005">>,
                             <<"1", "3", "-0.005">> >>
                     ELSE <<>>)),
     period |->
        IF v = "noperiod" THEN NoFile
        ELSE Csv(<<"id", "periodname", "fiscalyear", "quarter", "month">>,
                 PeriodLines
                 \o (IF v = "dupperiod"
                     THEN << <<"1", "P1b", "2024", "1", "1">> >> ELSE <<>>))]

\* file with the columns of DOMAIN ren renamed
Renamed(file, ren) ==
    LET new(c) == IF c \in DOMAIN ren THEN ren[c] ELSE c
        old(c) == CHOOSE o \in file.columns : new(o) = c
    IN File({new(c) : c \in file.columns},
            [i \in DOMAIN file.rows |->
               [c \in {new(o) : o \in file.columns} |-> file.rows[i][old(c)]]])

\* file with one more column per key of extra, holding extra's text in every row
AddColumns(file, extra) ==
    File(file.columns \cup DOMAIN extra,
         [i \in DOMAIN file.rows |->
            [c \in file.columns \cup DOMAIN extra |->
               IF c \in DOMAIN extra THEN extra[c] ELSE file.rows[i][c]]])

\* lower-priority alias columns, filled with other values in every row
LowerAliases ==
    [account |-> [account_id |-> "9", name |-> "Other", account_name |-> "Other",
                  accountsearchdisplayname |-> "Other", accounttype |-> "Equity",
                  account_type |-> "Equity"],
     subsidiary |-> [subsidiary_id |-> "9", fullname |-> "Other",
                     subsidiary_name |-> "Other"],
     transaction |-> [transaction_id |-> "9", transaction_date |-> "2024-02-15",
                      date |-> "2024-02-15", posting_period |-> "9", period |-> "9",
                      accountingperiod |-> "9", isnonposting |-> "FALSE",
                      posting |-> "TRUE"],
     transactionline |-> [transaction_id |-> "9", subsidiary_id |-> "9",
                          department_id |-> "20"],
     tal |-> [transaction_id |-> "9", account_id |-> "9"],
     period |-> [period_id |-> "9", period_name |-> "Other", name |-> "Other",
                 year |-> "1", fiscalquarter |-> "4", fiscalmonth |-> "9"]]

\* the first alias of each renamed field replaced by its second
SecondAliases ==
    [account |-> [id |-> "account_id", fullname |-> "name", accttype |-> "accounttype"],
     subsidiary |-> [id |-> "subsidiary_id", name |-> "fullname"],
     transaction |-> [id |-> "transaction_id", trandate |-> "transaction_date",
                      postingperiod |-> "posting_period", nonposting |-> "isnonposting"],
     transactionline |-> [transaction |-> "transaction_id",
                          subsidiary |-> "subsidiary_id",
                          department |-> "department_id"],
     tal |-> [transaction |-> "transaction_id", account |-> "account_id"],
     period |-> [id |-> "period_id", periodname |-> "period_name",
                 fiscalyear |-> "year", quarter |-> "fiscalquarter",
                 month |-> "fiscalmonth"]]

\* the reference upload with an account line whose id cell is empty
SparseUpload ==
    [Upload("nonposting", MaxLines) EXCEPT
        !.account = Csv(<<"id", "fullname", "accttype">>,
                        AccountLines \o << <<"", "Ghost", "Bank">> >>)]

\* every alias of every field present, the first one holding the data
AliasUpload ==
    [k \in FileKeys |-> AddColumns(SparseUpload[k], LowerAliases[k])]

\* the data under each field's second alias, the later ones present as well
LaterAliasUpload ==
    [k \in FileKeys |->
        LET file == Renamed(SparseUpload[k], SecondAliases[k])
        IN AddColumns(file, [c \in DOMAIN LowerAliases[k] \ file.columns |->
                                LowerAliases[k][c]])]

Uploads ==
    {Upload("nonposting", n) : n \in 0..MaxLines}
    \cup {Upload(v, MaxLines) : v \in Variants \cup FailingVariants}
    \cup {Upload(v, 1) : v \in {"identity", "balanced"}}
    \cup {AliasUpload, LaterAliasUpload}

\* filter values: each key absent (NULL) or present with one of its values
SubsidiaryValues == {1, 2}

PeriodValues == {"P1", "P2"}

DepartmentValues == {10, 20}

AccountTypeValues == {"Income", "Bank", "Unknown"}

\* most keys a filter dict of a report request holds
MaxKeys == 2

FilterDict(e, s, p, d, a) ==
    LET all == [exclude_nonposting |-> e, subsidiaries |-> s, periods |-> p,
                departments |-> d, account_types |-> a]
    IN [k \in {x \in DOMAIN all : all[x] # NULL} |-> all[k][1]]

Choices(values) == {NULL, Some({})} \cup {Some({v}) : v \in values}

FilterDicts ==
    {f \in {FilterDict(e, s, p, d, a) :
               e \in {NULL, Some(FALSE), Some(TRUE)},
               s \in {NULL, Some({}), Some({1})},
               p \in {NULL, Some({}), Some({"P1"})},
               d \in {NULL, Some({}), Some({10})},
               a \in {NULL, Some({}), Some({"Income"})}} :
        Cardinality(DOMAIN f) <= MaxKeys}
    \cup {FilterDict(NULL, NULL, NULL, NULL, Some({"Unknown"}))}

\* seconds between two script runs
ElapsedTimes == {0, ttl \div 2, ttl}

\* script runs that are at least ttl apart
Next ==
    \/ \E files_dict \in Uploads, f \in FilterDicts \cup {DefaultSelection} :
          RunButtonLoads(files_dict, f, ttl)
    \/ \E files_dict \in Uploads : RunButtonMissing(files_dict, ttl)
    \/ \E files_dict \in Uploads : RunButtonRaises(files_dict, ttl)
    \/ \E f \in FilterDicts : ReportRequest(f, ttl)

Spec == Init /\ [][Next]_vars

\* The loader on its own: the same script runs, every upload, and the sidebar
\* holding at most one key (what the loader does is the same under every
\* filter).
LoadFilters == {f \in FilterDicts : Cardinality(DOMAIN f) <= 1}

LoadNext ==
    \/ \E files_dict \in Uploads, f \in LoadFilters \cup {DefaultSelection} :
          RunButtonLoads(files_dict, f, ttl)
    \/ \E files_dict \in Uploads : RunButtonMissing(files_dict, ttl)
    \/ \E files_dict \in Uploads : RunButtonRaises(files_dict, ttl)
    \/ \E f \in LoadFilters : ReportRequest(f, ttl)

LoadSpec == Init /\ [][LoadNext]_vars

\* The ledgers of one balanced entry: the same script runs under every filter,
\* over the ledger uploads (the balanced one also with every transaction
\* line) and two uploads whose load fails.
LedgerUploads ==
    {Upload(v, 1) : v \in LedgerVariants}
    \cup {Upload("balanced", MaxLines)}
    \cup {Upload(v, MaxLines) : v \in {"nofile", "badamount"}}

LedgerNext ==
    \/ \E files_dict \in LedgerUploads, f \in FilterDicts \cup {DefaultSelection} :
          RunButtonLoads(files_dict, f, ttl)
    \/ \E files_dict \in LedgerUploads : RunButtonMissing(files_dict, ttl)
    \/ \E files_dict \in LedgerUploads : RunButtonRaises(files_dict, ttl)
    \/ \E f \in FilterDicts : ReportRequest(f, ttl)

LedgerSpec == Init /\ [][LedgerNext]_vars

\* The filter-options cache: script runs any time apart, over the uploads
\* whose stores differ in their options, the sidebar holding the checkbox only.
CacheUploads ==
    {Upload("nonposting", n) : n \in 0..MaxLines}
    \cup {Upload(v, MaxLines) : v \in {"noperiod", "dupsubsidiary", "nofile", "noamount"}}

CacheFilters == {f \in FilterDicts : DOMAIN f \subseteq {"exclude_nonposting"}}

CacheNext ==
    \/ \E files_dict \in CacheUploads, f \in CacheFilters \cup {DefaultSelection},
          elapsed \in ElapsedTimes :
          RunButtonLoads(files_dict, f, elapsed)
    \/ \E files_dict \in CacheUploads, elapsed \in ElapsedTimes :
          RunButtonMissing(files_dict, elapsed)
    \/ \E files_dict \in CacheUploads, elapsed \in ElapsedTimes :
          RunButtonRaises(files_dict, elapsed)
    \/ \E f \in CacheFilters, elapsed \in ElapsedTimes : ReportRequest(f, elapsed)

CacheSpec == Init /\ [][CacheNext]_vars

\* compute_pnl on its own: a frame of at most MaxRows rows, then the call
MaxRows == 3

FrameRows ==
    {[account_type |-> "Income", amount |-> 100, month |-> Some(1)],
     [account_type |-> "Income", amount |-> -40, month |-> Some(1)],
     [account_type |-> "Income", amount |-> -40, month |-> Some(2)],
     [account_type |-> "Income", amount |-> 0, month |-> NULL],
     [account_type |-> "Expense", amount |-> 30, month |-> Some(1)],
     [account_type |-> "Expense", amount |-> -30, month |-> Some(2)],
     [account_type |-> "COGS", amount |-> 20, month |-> Some(1)],
     [account_type |-> "COGS", amount |-> -20, month |-> NULL],
     [account_type |-> "Bank", amount |-> 500, month |-> Some(1)]}

Frames ==
    {[has_date |-> FALSE, rows |-> <<>>]}
    \cup {[has_date |-> TRUE, rows |-> rws] :
            rws \in UNION {[1..n -> FrameRows] : n \in 0..MaxRows}}

TransformInit ==
    /\ AppInit
    /\ merged_df \in Frames
    /\ pnl_result = NULL

TransformNext == ComputePnl

TransformSpec == TransformInit /\ [][TransformNext]_vars

---------------------------------------------------------------------------
(* Properties *)

SetKeys == {"subsidiaries", "periods", "departments", "account_types"}

\* a filter that restricts nothing: no key, or only FALSE / empty collections
EmptyFilter(f) ==
    \A k \in DOMAIN f :
        IF k = "exclude_nonposting" THEN f[k] = FALSE ELSE f[k] = {}

Without(f, key) == [k \in DOMAIN f \ {key} |-> f[k]]

With(f, key, v) == [k \in DOMAIN f \cup {key} |-> IF k = key THEN v ELSE f[k]]

\* the base rows made from accounting line i
RowsOfLine(i) == {t \in DOMAIN base : t[1] = i}

\* accounting line i has a transaction header
Resolves(i) ==
    \E h \in DOMAIN con.transaction_header :
        /\ con.transactionaccountingline[i].transaction # NULL
        /\ con.transaction_header[h].id = con.transactionaccountingline[i].transaction

\* the number of transaction lines of accounting line i's transaction
LineCount(i) ==
    Cardinality({j \in DOMAIN con.transactionline :
        /\ con.transactionaccountingline[i].transaction # NULL
        /\ con.transactionline[j].transaction
              = con.transactionaccountingline[i].transaction})

\* no two rows of the table share an id
UniqueId(table) ==
    \A m, n \in DOMAIN table :
        (m # n /\ table[m].id # NULL) => table[m].id # table[n].id

UniqueIds ==
    /\ UniqueId(con.account)
    /\ UniqueId(con.subsidiary)
    /\ UniqueId(con.transaction_header)
    /\ UniqueId(con.accountingperiod)

\* C1 as stated: with an empty filter every accounting line whose transaction
\* has a header makes exactly one base row, or k rows when its transaction has
\* k >= 2 transaction lines; never zero rows.
C1_AsStated ==
    (rendered /\ EmptyFilter(filters)) =>
        \A i \in DOMAIN con.transactionaccountingline :
            Resolves(i) =>
                Cardinality(RowsOfLine(i))
                    = (IF LineCount(i) >= 2 THEN LineCount(i) ELSE 1)

\* C1 amended: with an empty filter and unique ids in the account, subsidiary,
\* transaction_header and period tables, every accounting line whose
\* transaction has a header makes exactly k base rows, k the number of
\* transaction lines of its transaction: none when k = 0.
C1_RowsPerLine ==
    (rendered /\ EmptyFilter(filters) /\ UniqueIds) =>
        \A i \in DOMAIN con.transactionaccountingline :
            Resolves(i) => Cardinality(RowsOfLine(i)) = LineCount(i)

C1_Witness ==
    /\ rendered /\ EmptyFilter(filters) /\ UniqueIds
    /\ \E i, k \in DOMAIN con.transactionaccountingline :
        /\ Resolves(i) /\ LineCount(i) = 2 /\ Cardinality(RowsOfLine(i)) = 2
        /\ Resolves(k) /\ LineCount(k) = 0 /\ RowsOfLine(k) = {}

\* the rows of the transaction frame that normalisation keeps, in order
KeptTransactions ==
    WhereNotNull(dfs["transaction"], {get_column(dfs["transaction"], <<"id", "transaction_id">>)})

\* the posting-indicator column the transaction frame resolves to ("" when none)
IndicatorColumn ==
    LET c == get_column(dfs["transaction"], <<"nonposting", "isnonposting", "posting">>)
    IN IF c \in dfs["transaction"].columns THEN c ELSE ""

\* C2: when the indicator resolves to `nonposting` or `isnonposting`, the
\* stored flag is the parsed boolean of the cell (true stays true), NULL or
\* unparseable cells giving false.
C2_DirectFlagKept ==
    (data_loaded /\ IndicatorColumn \in {"nonposting", "isnonposting"}) =>
        \A n \in DOMAIN con.transaction_header :
            con.transaction_header[n].nonposting
                = Coalesce(TryCastBoolean(KeptTransactions[n][IndicatorColumn]),
                           Some(FALSE))

\* C3: when the indicator resolves to `posting`, the stored flag is the negation
\* of the parsed boolean and NULL / unparseable cells give false; with no
\* indicator column every row has false; the stored flag is never NULL.
C3_PostingNegated ==
    data_loaded =>
        \A n \in DOMAIN con.transaction_header :
            LET stored == con.transaction_header[n].nonposting IN
            /\ stored \in {Some(TRUE), Some(FALSE)}
            /\ IndicatorColumn = "" => stored = Some(FALSE)
            /\ IndicatorColumn = "posting" =>
                LET parsed == TryCastBoolean(KeptTransactions[n]["posting"])
                IN stored = (IF parsed = NULL THEN Some(FALSE) ELSE Some(~parsed[1]))

C3_Witness ==
    /\ data_loaded /\ IndicatorColumn = "posting"
    /\ \E m, n, k \in DOMAIN con.transaction_header :
        /\ KeptTransactions[m]["posting"] = Some("TRUE")
        /\ con.transaction_header[m].nonposting = Some(FALSE)
        /\ KeptTransactions[n]["posting"] = Some("FALSE")
        /\ con.transaction_header[n].nonposting = Some(TRUE)
        /\ TryCastBoolean(KeptTransactions[k]["posting"]) = NULL
        /\ con.transaction_header[k].nonposting = Some(FALSE)

\* accounting line i names an integer account id that no account row has
OrphanAccount(i) ==
    /\ con.transactionaccountingline[i].account # NULL
    /\ \A a \in DOMAIN con.account :
          con.account[a].id # con.transactionaccountingline[i].account

\* accounting line i matches no account row at all
NoAccount(i) ==
    \/ con.transactionaccountingline[i].account = NULL
    \/ OrphanAccount(i)

Placeholder(i) ==
    Some("Unknown Account ["
         \o ToString(con.transactionaccountingline[i].account[1]) \o "]")

\* C4: an accounting line with an integer account id that is in no account row,
\* whose transaction has a header and a transaction line, is in the base
\* relation (of an unrestricting filter) under the name "Unknown Account [<id>]"
\* and is one of the lines null_accounts counts.
C4_OrphanAccountKept ==
    rendered =>
        /\ validations.null_accounts
              = Cardinality({i \in DOMAIN con.transactionaccountingline : NoAccount(i)})
        /\ EmptyFilter(filters) =>
              \A i \in DOMAIN con.transactionaccountingline :
                  (OrphanAccount(i) /\ Resolves(i) /\ LineCount(i) >= 1) =>
                      /\ RowsOfLine(i) # {}
                      /\ \A t \in RowsOfLine(i) :
                            /\ base[t].account_name = Placeholder(i)
                            /\ base[t].account_id = NULL
                      /\ validations.null_accounts >= 1

C4_Witness ==
    /\ rendered /\ EmptyFilter(filters)
    /\ \E i \in DOMAIN con.transactionaccountingline :
        /\ OrphanAccount(i) /\ Resolves(i) /\ LineCount(i) >= 1
        /\ \E t \in RowsOfLine(i) : base[t].account_name = Some("Unknown Account [9]")
        /\ validations.null_accounts >= 1

\* C5: under any filter and for any loaded data, subsidiary_name and
\* account_name are non-NULL in every base row.
C5_NamesNeverNull ==
    \A t \in DOMAIN base :
        /\ base[t].subsidiary_name # NULL
        /\ base[t].account_name # NULL

\* C6: after normalisation no row of account, subsidiary or transaction_header
\* has a NULL id and no row of transactionline or transactionaccountingline has
\* a NULL transaction.
C6_NoNullKeys ==
    data_loaded =>
        /\ \A n \in DOMAIN con.account : con.account[n].id # NULL
        /\ \A n \in DOMAIN con.subsidiary : con.subsidiary[n].id # NULL
        /\ \A n \in DOMAIN con.transaction_header : con.transaction_header[n].id # NULL
        /\ \A n \in DOMAIN con.transactionline :
              con.transactionline[n].transaction # NULL
        /\ \A n \in DOMAIN con.transactionaccountingline :
              con.transactionaccountingline[n].transaction # NULL

\* C7: for each filter dimension an empty collection gives the same base
\* relation and the same report rows as a filter without that key.
C7_EmptyIsOmitted ==
    rendered =>
        \A key \in SetKeys :
            (key \in DOMAIN filters /\ filters[key] = {}) =>
                /\ base = get_base_query_with_filters(con, Without(filters, key))
                /\ tb_df = generate_trial_balance(con, Without(filters, key))
                /\ pnl_df = generate_pnl(con, Without(filters, key))
                /\ bs_df = generate_balance_sheet(con, Without(filters, key))

C7_Witness ==
    /\ rendered
    /\ base # <<>>
    /\ \E key \in SetKeys :
        /\ key \in DOMAIN filters /\ filters[key] = {}
        /\ DOMAIN filters = {key, "exclude_nonposting"}
        /\ filters["exclude_nonposting"]
        /\ base = get_base_query_with_filters(con, Without(filters, key))
        /\ base # get_base_query_with_filters(con, <<>>)

FilterValues(key) ==
    CASE key = "subsidiaries" -> SubsidiaryValues
      [] key = "periods" -> PeriodValues
      [] key = "departments" -> DepartmentValues
      [] key = "account_types" -> AccountTypeValues

SubRelation(b1, b2) ==
    /\ DOMAIN b1 \subseteq DOMAIN b2
    /\ \A t \in DOMAIN b1 : b1[t] = b2[t]

\* the filter holding only key k of f
Only(f, k) == [x \in {k} |-> f[k]]

\* C8: enlarging the non-empty value set of one dimension, the other options
\* equal, never removes a base row; the base rows are those that pass every
\* option of the filter taken alone (conjunction).
C8_FilterMonotone ==
    rendered =>
        /\ \A key \in SetKeys :
              (key \in DOMAIN filters /\ filters[key] # {}) =>
                  \A S \in SUBSET FilterValues(key) :
                      filters[key] \subseteq S =>
                          SubRelation(base,
                              get_base_query_with_filters(con, With(filters, key, S)))
        /\ \A t \in DOMAIN get_base_query_with_filters(con, <<>>) :
              t \in DOMAIN base
                  <=> \A k \in DOMAIN filters :
                          t \in DOMAIN get_base_query_with_filters(con, Only(filters, k))

C8_Witness ==
    /\ rendered
    /\ "subsidiaries" \in DOMAIN filters /\ filters["subsidiaries"] = {1}
    /\ "account_types" \in DOMAIN filters /\ filters["account_types"] = {"Income"}
    /\ base # <<>>
    /\ DOMAIN base
          # DOMAIN get_base_query_with_filters(con, With(filters, "subsidiaries", {1, 2}))
    /\ DOMAIN base # DOMAIN get_base_query_with_filters(con, Only(filters, "subsidiaries"))

NonpostingHeader(h) == con.transaction_header[h].nonposting = Some(TRUE)

\* C9: with exclude_nonposting true no base row belongs to a header whose
\* stored flag is true, and every other row stays; with it false or absent the
\* rows of nonposting transactions are in the base relation.
C9_NonpostingExcluded ==
    rendered =>
        LET others == get_base_query_with_filters(con, Without(filters, "exclude_nonposting"))
        IN IF "exclude_nonposting" \in DOMAIN filters /\ filters["exclude_nonposting"]
           THEN /\ \A t \in DOMAIN base : ~NonpostingHeader(t[5])
                /\ DOMAIN base = {t \in DOMAIN others : ~NonpostingHeader(t[5])}
           ELSE /\ base = others
                /\ EmptyFilter(filters) =>
                      \A i \in DOMAIN con.transactionaccountingline :
                          \A h \in DOMAIN con.transaction_header :
                              (/\ NonpostingHeader(h)
                               /\ con.transactionaccountingline[i].transaction # NULL
                               /\ con.transaction_header[h].id
                                     = con.transactionaccountingline[i].transaction
                               /\ LineCount(i) >= 1)
                              => \E t \in RowsOfLine(i) : t[5] = h

C9_Witness ==
    /\ rendered
    /\ "exclude_nonposting" \in DOMAIN filters /\ filters["exclude_nonposting"]
    /\ base # <<>>
    /\ \A t \in DOMAIN base : ~NonpostingHeader(t[5])
    /\ \E t \in DOMAIN get_base_query_with_filters(con, Without(filters, "exclude_nonposting")) :
          NonpostingHeader(t[5])

\* the sum of total_amount over the rows of df with a type of types
TypeTotal(df, types) ==
    SumOver({r \in df : r.account_type \in {Some(ty) : ty \in types}},
            [r \in df |-> r.total_amount])

\* C10: revenue is the magnitude of the sum over Income and OthIncome rows,
\* expenses the magnitude of the sum over Expense, COGS, OthExpense and
\* DeferExpense rows, net_income the signed sum of the two sums; an Income row
\* of -500 and an Expense row of +300 give 500, 300 and -200.
C10_PnlTotals ==
    rendered =>
        LET r == TypeTotal(pnl_df, {"Income", "OthIncome"})
            e == TypeTotal(pnl_df, {"Expense", "COGS", "OthExpense", "DeferExpense"})
        IN /\ pnl_totals.revenue = (IF r < 0 THEN -r ELSE r)
           /\ pnl_totals.expenses = (IF e < 0 THEN -e ELSE e)
           /\ pnl_totals.net_income = r + e
           /\ ({<<x.account_type, x.total_amount>> : x \in pnl_df}
                  = {<<Some("Income"), -500000>>, <<Some("Expense"), 300000>>}
               /\ Cardinality(pnl_df) = 2)
              => pnl_totals = [revenue |-> 500000, expenses |-> 300000,
                               net_income |-> -200000]

C10_Witness ==
    /\ rendered
    /\ Cardinality(pnl_df) = 2
    /\ {<<x.account_type, x.total_amount>> : x \in pnl_df}
          = {<<Some("Income"), -500000>>, <<Some("Expense"), 300000>>}
    /\ pnl_totals = [revenue |-> 500000, expenses |-> 300000, net_income |-> -200000]

\* C11: balance_check is assets - (liabilities + equity) to two decimals, the
\* three being the signed sums of total_amount over the asset, liability and
\* equity types; category totals of 1000, 400 and 600 give 0.
C11_BalanceCheck ==
    (rendered /\ bs_df # {}) =>
        LET a == TypeTotal(bs_df, {"Bank", "AcctRec", "OthCurrAsset", "FixedAsset",
                                   "OthAsset"})
            l == TypeTotal(bs_df, {"AcctPay", "OthCurrLiab", "LongTermLiab"})
            e == TypeTotal(bs_df, {"Equity"})
        IN /\ bs_totals.assets = a
           /\ bs_totals.liabilities = l
           /\ bs_totals.equity = e
           /\ bs_totals.balance_check % 10 = 0
           /\ bs_totals.balance_check - (a - (l + e)) \in -5..4
           /\ (a = 1000000 /\ l = 400000 /\ e = 600000) => bs_totals.balance_check = 0

C11_Witness ==
    /\ rendered
    /\ bs_totals = [assets |-> 1000000, liabilities |-> 400000, equity |-> 600000,
                    balance_check |-> 0]

\* the amount of each accounting line
LedgerAmount == [i \in DOMAIN con.transactionaccountingline |->
                    con.transactionaccountingline[i].amount[1]]

\* the store holds a balanced ledger under the sign convention: every
\* accounting line has an amount, a header, one transaction line and one account
\* of a balance-sheet type, and the lines of each transaction sum to zero
BalancedLedger ==
    LET tal == con.transactionaccountingline IN
    /\ tal # <<>>
    /\ UniqueIds
    /\ \A i \in DOMAIN tal :
          /\ tal[i].amount # NULL
          /\ Resolves(i)
          /\ LineCount(i) = 1
          /\ \E n \in DOMAIN con.account :
                /\ con.account[n].id = tal[i].account
                /\ con.account[n].accttype \in {Some(ty) : ty \in bs_account_types}
    /\ \A i \in DOMAIN tal :
          SumOver({k \in DOMAIN tal : tal[k].transaction = tal[i].transaction},
                  LedgerAmount) = 0

\* C12: for a balanced ledger under the sign convention (debits positive,
\* credits negative, each transaction summing to zero, balance-sheet types
\* only, one transaction line per transaction) the balance check of the
\* unfiltered Balance Sheet is 0.
C12_BalancedLedgerChecksZero ==
    (rendered /\ EmptyFilter(filters) /\ BalancedLedger) => bs_totals.balance_check = 0

\* C13: with no period input every base row carries the period name
\* "No Period Data", whatever its transaction's postingperiod, and the yearly
\* periodised P&L holds exactly one fiscal_year bucket.
C13_SyntheticPeriodJoinsAll ==
    (rendered /\ ~dfs.period.present) =>
        /\ \A t \in DOMAIN base : base[t].period_name = Some("No Period Data")
        /\ yearly_df # {} => Cardinality({r.period_cols[1] : r \in yearly_df}) = 1

\* the base rows of a P&L type
PnlRows == {t \in DOMAIN base : base[t].account_type \in
                                   {Some(ty) : ty \in pnl_account_types}}

\* the bucket of a base row at a granularity: year, sub-period, account type
Bucket(g, row) ==
    CASE g = "month" -> <<row.fiscal_year, row.fiscal_month, row.account_type>>
      [] g = "quarter" -> <<row.fiscal_year, row.fiscal_quarter, row.account_type>>
      [] OTHER -> <<row.fiscal_year, row.account_type>>

\* the bucket a row of the periodised frame reports
FrameBucket(g, r) ==
    IF g = "year" THEN <<r.period_cols[1], r.account_type>>
    ELSE <<r.period_cols[1], r.period_cols[2], r.account_type>>

PeriodisedFrame(g) ==
    CASE g = "month" -> monthly_df [] g = "quarter" -> quarterly_df [] OTHER -> yearly_df

\* C15: at each granularity the periodised P&L holds exactly one row per
\* distinct (fiscal_year, sub-period, account_type) among the P&L-type base
\* rows, its total_amount being the (two-decimal) sum of the bucket's amounts.
C15_OneRowPerBucket ==
    rendered =>
        \A g \in {"month", "quarter", "year"} :
            LET df == PeriodisedFrame(g)
                amt == [t \in PnlRows |-> base[t].amount[1]]
            IN /\ \A t \in PnlRows :
                     Cardinality({r \in df : FrameBucket(g, r) = Bucket(g, base[t])}) = 1
               /\ \A r \in df :
                     /\ \E t \in PnlRows : Bucket(g, base[t]) = FrameBucket(g, r)
                     /\ r.total_amount
                          - SumOver({t \in PnlRows :
                                        Bucket(g, base[t]) = FrameBucket(g, r)}, amt)
                           \in -5..5

\* the (subsidiary_name, account_name, account_type) group of a row
ReportKey(r) == <<r.subsidiary_name, r.account_name, r.account_type>>

\* the groups of the base relation whose type is one of types
BaseGroups(types) ==
    {ReportKey(base[t]) : t \in {u \in DOMAIN base : base[u].account_type \in types}}

\* df holds exactly one row for each group of groups
OneRowPerGroup(df, groups) ==
    /\ {ReportKey(r) : r \in df} = groups
    /\ Cardinality(df) = Cardinality(groups)

AllTypes == {base[t].account_type : t \in DOMAIN base}

\* C14: every P&L row has a P&L type and every Balance Sheet row a
\* balance-sheet type, each report holding one row for every
\* (subsidiary_name, account_name, account_type) group of the base relation
\* with an allowed type; the Trial Balance holds every group of the base
\* relation, those of type 'Unknown' included.
C14_AllowLists ==
    rendered =>
        LET pnl == {Some(ty) : ty \in {"Income", "OthIncome", "Expense", "COGS",
                                       "OthExpense", "DeferExpense"}}
            bs  == {Some(ty) : ty \in {"Bank", "AcctRec", "OthCurrAsset", "FixedAsset",
                                       "OthAsset", "AcctPay", "OthCurrLiab",
                                       "LongTermLiab", "Equity"}}
        IN /\ \A r \in pnl_df : r.account_type \in pnl
           /\ \A r \in bs_df : r.account_type \in bs
           /\ OneRowPerGroup(pnl_df, BaseGroups(pnl))
           /\ OneRowPerGroup(bs_df, BaseGroups(bs))
           /\ OneRowPerGroup(tb_df, BaseGroups(AllTypes))

C14_Witness ==
    /\ rendered
    /\ \E r \in tb_df : r.account_type = Some("Unknown")
    /\ \E r \in tb_df : r.account_type = Some("Bank") /\ r \notin pnl_df /\ r \in bs_df
    /\ \E r \in tb_df : r.account_type = Some("Income") /\ r \in pnl_df /\ r \notin bs_df
    /\ Cardinality(tb_df) > Cardinality(pnl_df) + Cardinality(bs_df)

\* the declared alias lists: input, canonical field, aliases in priority order
AliasLists ==
    {<<"account", <<"id", "account_id">> >>,
     <<"account", <<"fullname", "name", "account_name", "accountsearchdisplayname">> >>,
     <<"account", <<"accttype", "accounttype", "account_type">> >>,
     <<"subsidiary", <<"id", "subsidiary_id">> >>,
     <<"subsidiary", <<"name", "fullname", "subsidiary_name">> >>,
     <<"transaction", <<"id", "transaction_id">> >>,
     <<"transaction", <<"trandate", "transaction_date", "date">> >>,
     <<"transaction", <<"postingperiod", "posting_period", "period",
                        "accountingperiod">> >>,
     <<"transaction", <<"nonposting", "isnonposting", "posting">> >>,
     <<"transactionline", <<"transaction", "transaction_id">> >>,
     <<"transactionline", <<"subsidiary", "subsidiary_id">> >>,
     <<"transactionline", <<"department", "department_id">> >>,
     <<"tal", <<"transaction", "transaction_id">> >>,
     <<"tal", <<"account", "account_id">> >>,
     <<"period", <<"id", "period_id">> >>,
     <<"period", <<"periodname", "period_name", "name">> >>,
     <<"period", <<"fiscalyear", "year">> >>,
     <<"period", <<"quarter", "fiscalquarter">> >>,
     <<"period", <<"month", "fiscalmonth">> >>,
     <<"period", <<"startdate", "start_date">> >>,
     <<"period", <<"enddate", "end_date">> >>}

\* the positions of the aliases of options that are columns of input k
PresentAliases(k, options) == {i \in DOMAIN options : options[i] \in dfs[k].columns}

\* the present alias that comes first in the priority list
FirstAlias(k, options) ==
    options[CHOOSE i \in PresentAliases(k, options) :
                \A j \in PresentAliases(k, options) : i <= j]

\* the cells of column col of input k, over the rows where column key is filled
ColumnOf(k, col, key) ==
    LET kept == SelectSeq(dfs[k].rows, LAMBDA r : r[key] # NULL)
    IN [i \in DOMAIN kept |-> kept[i][col]]

\* C16: when several aliases of a field are present, get_column selects the one
\* that comes first in the declared priority list, whatever the column order
\* and however many of its cells are filled; the normalized account and
\* subsidiary columns are read from that alias.
C16_AliasPriority ==
    data_loaded =>
        /\ \A al \in AliasLists :
              (dfs[al[1]].present /\ PresentAliases(al[1], al[2]) # {})
                 => get_column(dfs[al[1]], al[2]) = FirstAlias(al[1], al[2])
        /\ LET id   == FirstAlias("account", <<"id", "account_id">>)
               name == FirstAlias("account", <<"fullname", "name", "account_name",
                                               "accountsearchdisplayname">>)
               type == FirstAlias("account", <<"accttype", "accounttype",
                                               "account_type">>)
           IN /\ Len(con.account) = Len(ColumnOf("account", id, id))
              /\ \A i \in DOMAIN con.account :
                    /\ con.account[i].id = TryCastBigint(ColumnOf("account", id, id)[i])
                    /\ con.account[i].fullname = ColumnOf("account", name, id)[i]
                    /\ con.account[i].accttype = ColumnOf("account", type, id)[i]
        /\ LET id   == FirstAlias("subsidiary", <<"id", "subsidiary_id">>)
               name == FirstAlias("subsidiary", <<"name", "fullname", "subsidiary_name">>)
           IN /\ Len(con.subsidiary) = Len(ColumnOf("subsidiary", id, id))
              /\ \A i \in DOMAIN con.subsidiary :
                    /\ con.subsidiary[i].id
                          = TryCastBigint(ColumnOf("subsidiary", id, id)[i])
                    /\ con.subsidiary[i].name = ColumnOf("subsidiary", name, id)[i]

\* several aliases of the account id are present with different cells, one row
\* has only the lower-priority alias filled, and the first alias was read
C16_Witness ==
    /\ data_loaded
    /\ {"id", "account_id", "fullname", "name"} \subseteq dfs.account.columns
    /\ \E i \in DOMAIN dfs.account.rows :
          /\ dfs.account.rows[i]["id"] = NULL
          /\ dfs.account.rows[i]["account_id"] = Some("9")
    /\ Len(con.account) < Len(dfs.account.rows)
    /\ {con.account[i].id : i \in DOMAIN con.account} = {Some(1), Some(2), Some(3), Some(7)}
    /\ \A i \in DOMAIN con.account : con.account[i].fullname # Some("Other")

\* the canonical fields other than the accounting line's required ones and the
\* posting flag: input, aliases, normalized table, field
OptionalFields ==
    {<<"account", <<"id", "account_id">>, "account", "id">>,
     <<"account", <<"fullname", "name", "account_name", "accountsearchdisplayname">>,
       "account", "fullname">>,
     <<"account", <<"accttype", "accounttype", "account_type">>, "account", "accttype">>,
     <<"subsidiary", <<"id", "subsidiary_id">>, "subsidiary", "id">>,
     <<"subsidiary", <<"name", "fullname", "subsidiary_name">>, "subsidiary", "name">>,
     <<"transaction", <<"id", "transaction_id">>, "transaction_header", "id">>,
     <<"transaction", <<"trandate", "transaction_date", "date">>,
       "transaction_header", "trandate">>,
     <<"transaction", <<"postingperiod", "posting_period", "period", "accountingperiod">>,
       "transaction_header", "postingperiod">>,
     <<"transactionline", <<"transaction", "transaction_id">>,
       "transactionline", "transaction">>,
     <<"transactionline", <<"subsidiary", "subsidiary_id">>,
       "transactionline", "subsidiary">>,
     <<"transactionline", <<"department", "department_id">>,
       "transactionline", "department">>,
     <<"period", <<"id", "period_id">>, "accountingperiod", "id">>,
     <<"period", <<"periodname", "period_name", "name">>, "accountingperiod", "periodname">>,
     <<"period", <<"fiscalyear", "year">>, "accountingperiod", "fiscalyear">>,
     <<"period", <<"quarter", "fiscalquarter">>, "accountingperiod", "quarter">>,
     <<"period", <<"month", "fiscalmonth">>, "accountingperiod", "month">>,
     <<"period", <<"startdate", "start_date">>, "accountingperiod", "startdate">>,
     <<"period", <<"enddate", "end_date">>, "accountingperiod", "enddate">>}

\* C17: when no alias of a field (other than the accounting line's required
\* fields) is a column of the input, the normalization of that table completes
\* without error and the field is null in every output row.
C17_MissingAliasIsNull ==
    /\ load_error \notin {"account", "subsidiary", "transaction", "transactionline",
                           "period"}
    /\ data_loaded =>
          \A fl \in OptionalFields :
              (dfs[fl[1]].present /\ PresentAliases(fl[1], fl[2]) = {})
                 => \A i \in DOMAIN con[fl[3]] : con[fl[3]][i][fl[4]] = NULL

\* the required field the accounting-line file of an upload has no column for:
\* the first of transaction, account and amount that is missing ("" when none)
MissingRequired(files_dict) ==
    LET cols == files_dict["tal"].columns IN
    IF cols \cap {"transaction", "transaction_id"} = {} THEN "Transaction"
    ELSE IF cols \cap {"account", "account_id"} = {} THEN "Account"
    ELSE IF "amount" \notin cols THEN "Amount"
    ELSE ""

\* the uploads that reach the accounting-line normaliser with a required field
\* missing
UploadsMissingField ==
    {files_dict \in Uploads :
        /\ \A k \in RequiredFiles : files_dict[k].present
        /\ load_all_data_raises(read_all(files_dict)) \notin
              {"account", "subsidiary", "transaction", "transactionline"}
        /\ MissingRequired(files_dict) # ""}

\* C18: a run-button click whose accounting-line input has no column for a
\* required field ends in the normaliser's error, raised before the
\* transactionaccountingline table exists (the session's store is as before);
\* the message names the missing field and lists the input's column names.
C18_MissingFieldIsFatal ==
    [][\A files_dict \in UploadsMissingField :
          (\/ \E elapsed \in ElapsedTimes : RunButtonRaises(files_dict, elapsed)
           \/ \E f \in SidebarSelections, elapsed \in ElapsedTimes :
                  RunButtonLoads(files_dict, f, elapsed))
          => /\ load_error' = "tal"
             /\ error_message'.kind = "ValueError"
             /\ error_message'.field = MissingRequired(files_dict)
             /\ error_message'.columns = files_dict["tal"].columns
             /\ con' = con
             /\ data_loaded' = data_loaded
             /\ ~rendered']_vars

C18_Witness ==
    /\ load_error = "tal"
    /\ error_message = [kind |-> "ValueError", field |-> "Transaction",
                        columns |-> {"account", "amount", "memo"}]
    /\ ~rendered

\* C19: no load is aborted by a cell that cannot be coerced to its target
\* type, an accounting-line amount that is not a number included.
C19_CoercionNeverAborts ==
    error_message.kind # "ConversionException"

\* the ids of the transaction headers whose flag is one of flags
HeaderIds(flags) ==
    {con.transaction_header[h].id :
        h \in {n \in DOMAIN con.transaction_header :
                  con.transaction_header[n].nonposting \in flags}} \ {NULL}

\* the five counts, taken over the normalized tables of the store
CountsOverTables ==
    [null_accounts |->
        Cardinality({i \in DOMAIN con.transactionaccountingline :
            \A n \in DOMAIN con.account :
                \/ con.transactionaccountingline[i].account = NULL
                \/ con.account[n].id # con.transactionaccountingline[i].account}),
     missing_subsidiaries |->
        Cardinality({j \in DOMAIN con.transactionline :
            \A n \in DOMAIN con.subsidiary :
                \/ con.transactionline[j].subsidiary = NULL
                \/ con.subsidiary[n].id # con.transactionline[j].subsidiary}),
     nonposting_count |-> Cardinality(HeaderIds({Some(TRUE)})),
     total_transactions |-> Cardinality(HeaderIds({NULL, Some(TRUE), Some(FALSE)})),
     posting_transactions |-> Cardinality(HeaderIds({Some(FALSE)}))]

\* C20: the five validation counts are the same for every filters value and
\* are taken over the normalized tables, not over the filtered base relation.
C20_ValidationsIgnoreFilters ==
    rendered =>
        /\ validations = CountsOverTables
        /\ \A f \in FilterDicts : run_data_validations(con, f) = validations

\* a filter that removes base rows, non-posting transactions among them, while
\* the counts still include them
C20_Witness ==
    /\ rendered
    /\ "exclude_nonposting" \in DOMAIN filters
    /\ filters.exclude_nonposting
    /\ validations.nonposting_count > 0
    /\ validations.null_accounts > 0
    /\ \A t \in DOMAIN base : t[2] # 0
    /\ base # <<>>

\* the options of the store's own tables
OwnOptions ==
    [subsidiaries |->
        {[id |-> con.subsidiary[n].id, name |-> con.subsidiary[n].name]
            : n \in DOMAIN con.subsidiary},
     periods |->
        {[name    |-> con.accountingperiod[n].periodname,
          year    |-> con.accountingperiod[n].fiscalyear,
          quarter |-> con.accountingperiod[n].quarter,
          month   |-> con.accountingperiod[n].month]
            : n \in {m \in DOMAIN con.accountingperiod :
                        con.accountingperiod[m].periodname # NULL}},
     departments |->
        {d[1] : d \in {con.transactionline[n].department
                          : n \in DOMAIN con.transactionline} \ {NULL}},
     account_types |->
        {a[1] : a \in {con.account[n].accttype : n \in DOMAIN con.account} \ {NULL}}]

\* C21: whenever the sidebar is rendered, get_available_filters has returned
\* the subsidiaries, periods, departments and account types of the session's
\* own store, never those cached for a store loaded before, also within the
\* 300 seconds of the earlier entry.
C21_OptionsOfOwnStore ==
    rendered => available = OwnOptions

\* r is x (in thousandths) rounded to two decimal places
RoundedTo2(x, r) == r % 10 = 0 /\ r - x \in -5..5

BaseAmount == [t \in DOMAIN base |-> base[t].amount[1]]

\* the exact sum of the base rows of an account group, among the rows of types
GroupSum(r, types) ==
    SumOver({t \in DOMAIN base : /\ ReportKey(base[t]) = ReportKey(r)
                                 /\ base[t].account_type \in types}, BaseAmount)

\* the exact sum of the P&L base rows of a periodised group
PeriodGroupSum(g, r) ==
    SumOver({t \in PnlRows :
                <<period_cols(g, base[t]), base[t].account_type>>
                   = <<r.period_cols, r.account_type>>}, BaseAmount)

\* C22: every total_amount of the Trial Balance, the P&L, the periodised P&L
\* and the Balance Sheet is its group's sum of amounts rounded to two decimal
\* places, whatever the precision of the amounts.
C22_TotalsRounded ==
    rendered =>
        /\ \A r \in tb_df : RoundedTo2(GroupSum(r, AllTypes), r.total_amount)
        /\ \A r \in pnl_df : RoundedTo2(GroupSum(r, AllTypes), r.total_amount)
        /\ \A r \in bs_df : RoundedTo2(GroupSum(r, AllTypes), r.total_amount)
        /\ \A g \in {"month", "quarter", "year"} :
              \A r \in PeriodisedFrame(g) :
                  RoundedTo2(PeriodGroupSum(g, r), r.total_amount)

\* sums with a third decimal in each report
C22_Witness ==
    /\ rendered
    /\ \E r \in tb_df : GroupSum(r, AllTypes) = 5 /\ r.total_amount = 10
    /\ \E r \in pnl_df : GroupSum(r, AllTypes) = -499996 /\ r.total_amount = -500000
    /\ \E r \in bs_df : GroupSum(r, AllTypes) = 200005 /\ r.total_amount = 200010
    /\ \E r \in yearly_df : PeriodGroupSum("year", r) % 10 # 0

\* C23: an accounting line whose transaction id matches no transaction header
\* (a key that became null at normalization included) has no row in the base
\* relation, so no report row draws on it, under every filter.
C23_UnresolvedLineExcluded ==
    rendered =>
        /\ \A i \in DOMAIN con.transactionaccountingline :
              ~Resolves(i) => RowsOfLine(i) = {}
        /\ \A t \in DOMAIN base :
              con.transaction_header[t[5]].id
                 = con.transactionaccountingline[t[1]].transaction

\* a line with transaction lines but no header, and a line with a null key,
\* next to lines that do have rows
C23_Witness ==
    /\ rendered
    /\ base # <<>>
    /\ \E i \in DOMAIN con.transactionaccountingline :
          /\ ~Resolves(i)
          /\ LineCount(i) > 0
    /\ \E i \in DOMAIN con.transactionaccountingline :
          con.transactionaccountingline[i].transaction = NULL

\* the input each table of the store is made from
TableInput ==
    [account |-> "account", subsidiary |-> "subsidiary",
     transaction_header |-> "transaction", transactionline |-> "transactionline",
     transactionaccountingline |-> "tal", accountingperiod |-> "period"]

\* the key cells of the rows of input k, cast: the keys a table made from k can hold
InputKeys(k, options) ==
    IF PresentAliases(k, options) = {} THEN {}
    ELSE {TryCastBigint(dfs[k].rows[i][FirstAlias(k, options)]) : i \in DOMAIN dfs[k].rows}

\* C24: the store handed to the reports holds only rows of the most recent
\* successful load's inputs: nothing of an earlier load survives, and with no
\* period input the period table is exactly the one synthetic row.
C24_StoreRebuilt ==
    data_loaded =>
        /\ \A tb \in DOMAIN TableInput \ {"accountingperiod"} :
              Len(con[tb]) <= Len(dfs[TableInput[tb]].rows)
        /\ \A n \in DOMAIN con.account :
              con.account[n].id \in InputKeys("account", <<"id", "account_id">>)
        /\ \A n \in DOMAIN con.subsidiary :
              con.subsidiary[n].id \in InputKeys("subsidiary", <<"id", "subsidiary_id">>)
        /\ \A n \in DOMAIN con.transaction_header :
              con.transaction_header[n].id
                 \in InputKeys("transaction", <<"id", "transaction_id">>)
        /\ \A n \in DOMAIN con.transactionline :
              con.transactionline[n].transaction
                 \in InputKeys("transactionline", <<"transaction", "transaction_id">>)
        /\ \A n \in DOMAIN con.transactionaccountingline :
              con.transactionaccountingline[n].transaction
                 \in InputKeys("tal", <<"transaction", "transaction_id">>)
        /\ IF dfs.period.present
           THEN /\ Len(con.accountingperiod) <= Len(dfs.period.rows)
                /\ \A n \in DOMAIN con.accountingperiod :
                      con.accountingperiod[n].id
                         \in InputKeys("period", <<"id", "period_id">>)
           ELSE /\ Len(con.accountingperiod) = 1
                /\ con.accountingperiod[1].id = Some(1)
                /\ con.accountingperiod[1].periodname = Some("No Period Data")
        /\ con = load_all_data(dfs)

\* a load without a period file and with fewer transaction lines, after a
\* load whose periods and departments the options cache still holds
C24_Witness ==
    /\ data_loaded
    /\ rendered
    /\ ~dfs.period.present
    /\ Len(con.accountingperiod) = 1
    /\ cache # NULL
    /\ Cardinality(cache[1].value.periods) = 2
    /\ available # OwnOptions

\* the sum of the amounts of the input rows of type ty
InputSum(ty) ==
    SumOver({i \in DOMAIN merged_df.rows : merged_df.rows[i].account_type = ty},
            [i \in DOMAIN merged_df.rows |-> merged_df.rows[i].amount])

\* the input rows of type ty that have a month
MonthSum(m, ty) ==
    SumOver({i \in DOMAIN merged_df.rows : /\ merged_df.rows[i].account_type = ty
                                    /\ merged_df.rows[i].month = Some(m)},
            [i \in DOMAIN merged_df.rows |-> merged_df.rows[i].amount])

AnyPositiveIncome ==
    \E i \in DOMAIN merged_df.rows :
        merged_df.rows[i].account_type = "Income" /\ merged_df.rows[i].amount > 0

\* C25: in compute_pnl, if at least one Income row is positive every Income
\* amount is multiplied by -1 (the negative ones too), otherwise no amount
\* changes; Expense and COGS amounts never change; rows of other account
\* types are not in the summary.
C25_IncomeSignReversal ==
    (pnl_result # NULL /\ merged_df.has_date) =>
        LET sign(ty) == IF ty = "Income" /\ AnyPositiveIncome THEN -1 ELSE 1
        IN /\ \A r \in pnl_result[1].pnl_summary :
                 /\ r.account_type \in {"Income", "Expense", "COGS"}
                 /\ r.amount = sign(r.account_type) * InputSum(r.account_type)
           /\ \A r \in pnl_result[1].pnl_monthly :
                 /\ r.account_type \in {"Income", "Expense", "COGS"}
                 /\ r.amount = sign(r.account_type) * MonthSum(r.month, r.account_type)
           /\ {r.account_type : r \in pnl_result[1].pnl_summary}
                 = {merged_df.rows[i].account_type : i \in DOMAIN merged_df.rows}
                      \cap {"Income", "Expense", "COGS"}
           /\ Cardinality(pnl_result[1].pnl_summary)
                 = Cardinality({r.account_type : r \in pnl_result[1].pnl_summary})

\* a positive and a negative Income row next to an Expense row: both Income
\* amounts are reversed, the Expense amount is not
C25_Witness ==
    /\ pnl_result # NULL
    /\ merged_df.has_date
    /\ {merged_df.rows[i] : i \in DOMAIN merged_df.rows}
          = {[account_type |-> "Income", amount |-> 100, month |-> Some(1)],
             [account_type |-> "Income", amount |-> -40, month |-> Some(2)],
             [account_type |-> "Expense", amount |-> 30, month |-> Some(1)]}
    /\ pnl_result[1].pnl_summary
          = {[account_type |-> "Income", amount |-> -60],
             [account_type |-> "Expense", amount |-> 30]}
    /\ [month |-> 2, account_type |-> "Income", amount |-> 40] \in pnl_result[1].pnl_monthly

\* the account (name and type, as the reports show it) of accounting line i
LineAccount(i) ==
    LET tal == con.transactionaccountingline[i]
        n   == CHOOSE m \in LeftJoin(con.account, tal.account) : TRUE
        a   == RowOr(con.account, n, NullAccount)
    IN <<Coalesce(a.fullname, UnknownAccountName(tal.account)),
         Coalesce(a.accttype, Some("Unknown"))>>

\* the sum of the Trial Balance rows of account acc
TrialBalanceOf(acc) ==
    SumOver({r \in tb_df : <<r.account_name, r.account_type>> = acc},
            [r \in tb_df |-> r.total_amount])

\* amount times the number of transaction lines, per accounting line
WeightedAmount ==
    [i \in DOMAIN con.transactionaccountingline |->
        con.transactionaccountingline[i].amount[1] * LineCount(i)]

\* C26 as stated: with an empty filter and unique ids, the Trial Balance rows
\* of an account sum to the sum, over the account's accounting lines, of
\* amount times the number of transaction lines of the line's transaction.
C26_AsStated ==
    (rendered /\ EmptyFilter(filters) /\ UniqueIds) =>
        \A i \in DOMAIN con.transactionaccountingline :
            TrialBalanceOf(LineAccount(i))
               = SumOver({j \in DOMAIN con.transactionaccountingline :
                             LineAccount(j) = LineAccount(i)}, WeightedAmount)

\* C26 amended: the same over the accounting lines whose transaction has a
\* header, and up to the rounding of each Trial Balance row to two decimals.
C26_CountedPerTransactionLine ==
    (rendered /\ EmptyFilter(filters) /\ UniqueIds) =>
        \A i \in DOMAIN con.transactionaccountingline :
            LET acc  == LineAccount(i)
                rows == Cardinality({r \in tb_df : <<r.account_name, r.account_type>> = acc})
                sum  == SumOver({j \in DOMAIN con.transactionaccountingline :
                                    LineAccount(j) = acc /\ Resolves(j)}, WeightedAmount)
            IN /\ TrialBalanceOf(acc) - sum \in (-5 * rows)..(5 * rows)
               /\ \A r \in tb_df : r.total_amount % 10 = 0

\* an account with a line counted twice, a line counted not at all and no
\* third decimal: its Trial Balance rows sum to twice the one amount
C26_Witness ==
    /\ rendered /\ EmptyFilter(filters) /\ UniqueIds
    /\ \E i, k \in DOMAIN con.transactionaccountingline :
          /\ LineAccount(i) = LineAccount(k)
          /\ Resolves(i) /\ LineCount(i) = 2
          /\ LineCount(k) = 0
          /\ \A j \in DOMAIN con.transactionaccountingline :
                LineAccount(j) = LineAccount(i) => j \in {i, k}
          /\ TrialBalanceOf(LineAccount(i))
                = 2 * con.transactionaccountingline[i].amount[1]

\* every accounting line has an amount and the lines of each transaction sum
\* to zero
TransactionsBalance ==
    LET tal == con.transactionaccountingline IN
    /\ tal # <<>>
    /\ \A i \in DOMAIN tal : tal[i].amount # NULL
    /\ \A i \in DOMAIN tal :
          SumOver({k \in DOMAIN tal : tal[k].transaction = tal[i].transaction},
                  LedgerAmount) = 0

NoAccountTypes(f) == "account_types" \notin DOMAIN f \/ f["account_types"] = {}

TrialBalanceSum == SumOver(tb_df, [r \in tb_df |-> r.total_amount])

\* C27 as stated: when the accounting lines of every transaction sum to zero,
\* the Trial Balance totals sum to zero under every filter with no account
\* types.
C27_AsStated ==
    (rendered /\ TransactionsBalance /\ NoAccountTypes(filters)) => TrialBalanceSum = 0

\* C27 amended: with unique account ids as well, the Trial Balance totals sum
\* to zero up to the rounding of each row to two decimals, and to exactly zero
\* when no amount has a third decimal.
C27_TrialBalanceBalances ==
    (rendered /\ TransactionsBalance /\ UniqueId(con.account) /\ NoAccountTypes(filters)) =>
        LET n == Cardinality(tb_df) IN
        /\ TrialBalanceSum \in (-5 * n)..(5 * n)
        /\ (\A i \in DOMAIN LedgerAmount : LedgerAmount[i] % 10 = 0)
              => TrialBalanceSum = 0

\* a balanced ledger whose transaction has two transaction lines, one of them
\* removed by a subsidiaries filter: debits and credits cancel
C27_Witness ==
    /\ rendered /\ TransactionsBalance /\ UniqueId(con.account)
    /\ "subsidiaries" \in DOMAIN filters /\ filters["subsidiaries"] # {}
    /\ NoAccountTypes(filters)
    /\ \E i \in DOMAIN con.transactionaccountingline :
          LineCount(i) = 2 /\ Cardinality(RowsOfLine(i)) = 1
    /\ \E r \in tb_df : r.total_amount > 0
    /\ TrialBalanceSum = 0

\* C28 as stated: for every loaded store the non-posting and the posting count
\* add up to the total count of distinct transaction ids.
C28_AsStated ==
    rendered =>
        validations.nonposting_count + validations.posting_transactions
            = validations.total_transactions

\* C28 amended: the counts add up when no two transaction headers share an id;
\* every id is then in exactly one of the two classes.
C28_CountsAddUp ==
    (rendered /\ UniqueId(con.transaction_header)) =>
        /\ validations.nonposting_count + validations.posting_transactions
              = validations.total_transactions
        /\ \A h \in DOMAIN con.transaction_header :
              con.transaction_header[h].nonposting \in {Some(TRUE), Some(FALSE)}

\* a store with unique header ids, a header whose id is null, and headers of
\* both classes
C28_Witness ==
    /\ rendered /\ UniqueId(con.transaction_header)
    /\ \E h \in DOMAIN con.transaction_header : con.transaction_header[h].id = NULL
    /\ validations.nonposting_count >= 1
    /\ validations.posting_transactions >= 1
    /\ validations.total_transactions
          = validations.nonposting_count + validations.posting_transactions

\* C29: a filter with values on a dimension leaves no base row whose value in
\* that dimension is unresolved: no null period name under a periods filter,
\* no null transaction-line subsidiary or department under a subsidiaries or
\* departments filter, no row without an account type (account_type 'Unknown')
\* under an account_types filter.
C29_UnresolvedRowsRemoved ==
    rendered =>
        \A t \in DOMAIN base :
            /\ HasValues(filters, "periods") => base[t].period_name # NULL
            /\ HasValues(filters, "subsidiaries")
                  => con.transactionline[t[3]].subsidiary # NULL
            /\ HasValues(filters, "departments")
                  => /\ con.transactionline[t[3]].department # NULL
                     /\ base[t].department_id # NULL
            /\ HasValues(filters, "account_types")
                  => /\ t[2] # 0
                     /\ base[t].account_type # Some("Unknown")

\* a periods and an account_types filter that keep rows of a store whose
\* unfiltered base relation has a row of an orphan account and a row with no
\* period name
C29_Witness ==
    /\ rendered
    /\ HasValues(filters, "periods") /\ HasValues(filters, "account_types")
    /\ DOMAIN base # {}
    /\ LET all == get_base_query_with_filters(con, <<>>)
       IN /\ \E t \in DOMAIN all : t[2] = 0 /\ OrphanAccount(t[1])
          /\ \E t \in DOMAIN all : all[t].period_name = NULL

\* C30: a run whose load fails (a required file missing, or load_all_data
\* raising) leaves the session's store and data_loaded flag as they were and
\* renders no report; no report is rendered while no load has succeeded; and
\* the store of the session is always the whole store of the last successful
\* load, which the reports of every later request are computed from.
C30_FailedLoadKeepsStore ==
    [][/\ load_error' # ""
            => con' = con /\ data_loaded' = data_loaded /\ ~rendered'
       /\ ~data_loaded' => ~rendered' /\ con' = EmptyStore
       /\ data_loaded'
            => load_all_data_raises(dfs') = "" /\ con' = load_all_data(dfs')
       /\ (rendered' /\ (load_error # "" \/ ~rendered))
            => /\ base' = get_base_query_with_filters(con', filters')
               /\ tb_df' = generate_trial_balance(con', filters')]_vars

\* a failed load after a successful one: the store of the earlier load is
\* still the session's, and nothing is rendered
C30_Witness ==
    /\ load_error \notin {"", "missing"}
    /\ data_loaded /\ ~rendered
    /\ con # EmptyStore /\ con = load_all_data(dfs)

=============================================================================
